---------------------------- MODULE Spec2Model ----------------------------
(***************************************************************************)
(* A model of the Duet orchestrator: one run of orchestrate() over two     *)
(* opaque agents (codex, claude), from agent verification to the final     *)
(* apply step.  Agent outputs, test exit codes, patch-tool outcomes and    *)
(* the user's answers are inputs drawn from small sets; everything the     *)
(* orchestrator computes from them is computed as the source computes it.  *)
(*                                                                         *)
(* Strings that the code inspects (paths, diff header lines, globs) are    *)
(* sequences of tokens: a token is a separator ("/", a tab) or a chunk of  *)
(* a name ("package", ".json").  startsWith, slice and the one-wildcard    *)
(* glob of the source act on tokens as they act on characters.             *)
(***************************************************************************)
EXTENDS Integers, Sequences, FiniteSets, TLC

VARIABLES
    cfg,            \* effectiveConfig + OrchestrateOptions + isGit, fixed for the run
    pc,             \* position of the control thread inside orchestrate()
    phases,         \* run*Phase functions entered so far, in order
    art,            \* the run directory: artifact name -> content (Absent if not written)
    decisionWrites, \* number of writes of decide/decision.json
    transcript,     \* conversation/transcript.jsonl: decision events and interactive notes
    decision,       \* the in-memory Decision object handed from phase to phase
    debateDirs,     \* debate_round_<k> directories created
    picks,          \* codexPick / claudePick (judge mode: parsed, kept under the judge)
    round,          \* loop counter of the loop being executed
    roles,          \* driver/navigator, then fixer/critic
    rootTree,       \* the user's working tree (rootDir)
    wt,             \* worktrees of this run: name -> tree (NoTree if not created)
    loop,           \* locals of the joint loop and of the converge loop
    calls,          \* runAgentPhase calls made so far, per phase name
    procs,          \* child processes spawned by runCommand and not yet resolved
    callLog,        \* the runAgentPhase calls started, in order: phase and agent
    lastResult,     \* the RunResult of the latest call that resolved (none: <<>>)
    sessions,       \* .orchestrator/sessions: session id -> session.json (Absent if none)
    context,        \* the RunContext of the run (context.json)
    invocations,    \* number of orchestrate() invocations so far
    guardrailChecks \* number of evaluateGuardrails calls of the run

vars == <<cfg, pc, phases, art, decisionWrites, transcript, decision,
          debateDirs, picks, round, roles, rootTree, wt, loop, calls,
          procs, callLog, lastResult, sessions, context, invocations, guardrailChecks>>

(* The state of the call layer (exec.ts, agents.ts); a step of the control  *)
(* thread that is not inside runCommand leaves it alone.                    *)
exec == <<procs, callLog, lastResult>>

(* What outlives a run (the session directory) and the run's context; it   *)
(* is written when orchestrate() starts and left alone afterwards.          *)
store == <<sessions, context, invocations>>

-----------------------------------------------------------------------------
(* Bounds of the model *)

MaxDebateRounds == 2
MaxJointRounds == 2
MaxConvergeRounds == 2
MaxContent == 2
MaxInvocations == 3

AgentNames == {"codex", "claude"}
DecisionModes == {"judge", "debate", "prefer-codex", "prefer-claude", "neither"}

Undef == "undefined"

otherAgentMut(agent) == agent
otherAgent(agent) == IF agent = "codex" THEN "claude" ELSE "codex"

(* Optional numbers of the configuration: <<>> is undefined, <<n>> is n. *)
NoneV == <<>>
Some(x) == <<x>>
OrElse(opt, default) == IF opt = NoneV THEN default ELSE opt[1]

-----------------------------------------------------------------------------
(* utils.ts: extractJson on agent output.                                   *)
(* A JSON value is a record: t is "object", "scalar" (a truthy non-object: *)
(* a number, a non-empty string, an array, true), "falsy" (null, 0, false, *)
(* the empty string) or "bad" (JSON.parse throws).  An object carries the  *)
(* two keys the decision code reads; Undef is an absent (or null) key,     *)
(* "both" stands for any non-empty string that is no agent name, "" is the *)
(* empty string.                                                            *)

WinnerValues == {"codex", "claude", "neither", "both", "", Undef}
RationaleValues == {"text", Undef}

JObject(w, r) == [t |-> "object", winner |-> w, rationale |-> r]
JOther(t) == [t |-> t, winner |-> Undef, rationale |-> Undef]
JObjects == {JObject(w, r) : w \in WinnerValues, r \in RationaleValues}
JNull == JOther("null")
NoPart == JOther("none")

(* An output text, by what each tier of extractJson sees in it: the whole  *)
(* trimmed text (direct), the body of the first ```json fence (fenced,     *)
(* NoPart without a fence) and the first-"{"-to-last-"}" slice (brace,     *)
(* NoPart without such a slice).                                            *)
Text(d, f, b) == [direct |-> d, fenced |-> f, brace |-> b]
Texts ==
    LET bad == JOther("bad")
        noObject == {NoPart, bad, JOther("falsy")}
    IN  {Text(o, NoPart, o) : o \in JObjects}
        \cup {Text(JOther("scalar"), NoPart, NoPart), Text(JOther("falsy"), NoPart, NoPart)}
        \cup {Text(bad, o, bad) : o \in JObjects}
        \cup {Text(bad, JOther("scalar"), NoPart)}
        \cup {Text(bad, NoPart, o) : o \in JObjects}
        \cup {Text(bad, f, JObject("claude", "text")) : f \in noObject}
        \cup {Text(bad, f, b) : f \in noObject, b \in {NoPart, bad}}

Truthy(v) == v.t \in {"object", "scalar"}

safeJsonParse(v) == IF v.t = "bad" THEN JNull ELSE v

extractJson(text) ==
    LET direct == safeJsonParse(text.direct) IN
    IF Truthy(direct) THEN direct
    ELSE IF text.fenced # NoPart /\ Truthy(safeJsonParse(text.fenced))
         THEN safeJsonParse(text.fenced)
    ELSE IF text.brace # NoPart
         THEN safeJsonParse(text.brace)
    ELSE JNull

(* parsed?.winner and parsed?.rationale: undefined on null and on scalars. *)
WinnerOf(parsed) == IF parsed.t = "object" THEN parsed.winner ELSE Undef
RationaleOf(parsed) == IF parsed.t = "object" THEN parsed.rationale ELSE Undef

(* JavaScript truthiness of a winner value: undefined and "" are falsy. *)
TruthyStr(s) == s # Undef /\ s # ""

-----------------------------------------------------------------------------
(* Configuration (.orchestrator/config.json, read once by loadConfig with  *)
(* no validation) and the options of the invocation.                        *)

(* config.agents[agent] with what the installed binary answers: found is   *)
(* `which <command>` succeeding, versionOutput the numbers of the first     *)
(* version in the output of `<command> <versionArgs>` (none, x.y or x.y.z). *)
Installed ==
    [found |-> TRUE,
     versionArgs |-> NoneV,            \* config.agents[agent].versionArgs
     minVersion |-> NoneV,             \* config.agents[agent].minVersion, as its parts
     versionOutput |-> <<1, 0, 0>>]

(* verify.ts parseVersion: first x.y.z, else first x.y as x.y.0, else null *)
parseVersion(output) ==
    IF Len(output) = 3 THEN Some(output)
    ELSE IF Len(output) = 2 THEN Some(output \o <<0>>)
    ELSE NoneV

(* verify.ts compareVersions: numeric, part by part, missing parts are 0 *)
compareVersions(a, b) ==
    LET part(v, i) == IF i <= Len(v) THEN v[i] ELSE 0
        differ == {i \in 1..3 : part(a, i) # part(b, i)}
    IN IF differ = {} THEN 0
       ELSE LET i == CHOOSE k \in differ : \A j \in differ : k <= j
            IN IF part(a, i) > part(b, i) THEN 1 ELSE -1

(* verify.ts verifyAgents, one agent: found and versionOk (NoneV: not set) *)
VersionProbed(agentConfig) == Len(OrElse(agentConfig.versionArgs, <<"--version">>)) > 0
verifyAgent(agentConfig) ==
    IF ~agentConfig.found THEN [found |-> FALSE, versionOk |-> NoneV]
    ELSE IF ~VersionProbed(agentConfig) THEN [found |-> TRUE, versionOk |-> NoneV]
    ELSE LET parsed == parseVersion(agentConfig.versionOutput)
         IN [found |-> TRUE,
             versionOk |->
                IF parsed # NoneV
                THEN IF agentConfig.minVersion # NoneV
                     THEN Some(compareVersions(parsed[1], agentConfig.minVersion[1]) >= 0)
                     ELSE Some(TRUE)
                ELSE IF agentConfig.minVersion # NoneV THEN Some(FALSE) ELSE NoneV]

(* verify.ts verificationFailures *)
verificationFailures(agents) ==
    {a \in DOMAIN agents :
        ~verifyAgent(agents[a]).found \/ verifyAgent(agents[a]).versionOk = Some(FALSE)}

GuardrailsOff ==
    [enabled |-> FALSE, maxFilesChanged |-> NoneV, maxLinesAdded |-> NoneV,
     maxLinesRemoved |-> NoneV, forbiddenPaths |-> <<>>,
     forbidDependencyChanges |-> FALSE, dependencyFiles |-> NoneV]

BaseConfig ==
    [task |-> "task A",                \* options.task
     sessionId |-> NoneV,              \* options.sessionId (--session)
     decisionMode |-> "neither",       \* config.decision.mode
     judgeAgent |-> Undef,             \* config.decision.judgeAgent
     debateRounds |-> NoneV,           \* config.decision.debateRounds
     optDecisionMode |-> Undef,        \* options.decisionMode (--decision)
     interactive |-> FALSE,            \* options.interactive
     isTTY |-> FALSE,                  \* process.stdin.isTTY
     applyPatch |-> FALSE,             \* options.applyPatch (--apply)
     isGit |-> FALSE,                  \* isGitRepo(rootDir)
     implMode |-> Undef,               \* config.implementation.mode
     implDriver |-> Undef,             \* config.implementation.driver
     maxRounds |-> NoneV,              \* config.implementation.maxRounds
     applyNavigatorPatch |-> Undef,    \* config.implementation.applyNavigatorPatch
     testsDuringLoop |-> FALSE,
     swapDriverOnFail |-> FALSE,
     swapDriverEachRound |-> FALSE,
     testsEnabled |-> FALSE,           \* config.tests.enabled
     reviewEnabled |-> FALSE,          \* config.review.enabled
     reviewer |-> "both",              \* config.review.reviewer
     convergeEnabled |-> FALSE,        \* config.converge.enabled
     convergeMaxRounds |-> NoneV,      \* config.converge.maxRounds
     isolateWorkspaces |-> FALSE,      \* config.context.isolateWorkspaces
     agentTimeoutMs |-> NoneV,         \* config.limits.agentTimeoutMs
     judgeTimeoutMs |-> NoneV,         \* config.limits.judgeTimeoutMs
     agents |-> [a \in AgentNames |-> Installed],
     guardrails |-> GuardrailsOff]

(* orchestrate: effectiveConfig.  --interactive forces debate (unless a    *)
(* decision mode is given on the command line) and a joint implementation  *)
(* with per-round driver swap.                                              *)
EffectiveConfig(c) ==
    IF c.interactive
    THEN [c EXCEPT !.decisionMode = IF c.optDecisionMode # Undef THEN @ ELSE "debate",
                   !.implMode = "joint",
                   !.maxRounds = IF @ = NoneV THEN Some(2) ELSE @,
                   !.swapDriverEachRound = TRUE]
    ELSE c

(* orchestrate: the decisionMode argument of runDecisionPhase, then its    *)
(* mode = overrideMode ?? decisionConfig.mode.                              *)
OverrideMode(c) ==
    IF c.optDecisionMode # Undef THEN c.optDecisionMode
    ELSE IF c.interactive THEN "debate" ELSE Undef

ModeOf(c) == IF OverrideMode(c) # Undef THEN OverrideMode(c) ELSE c.decisionMode

-----------------------------------------------------------------------------
(* Trees.  A tree maps each relative path to a content: 0 is "no such      *)
(* file", 1..MaxContent are distinct one-line contents.                     *)

PkgJson == <<"package", ".json">>
AppTs == <<"src", "/", "app", ".ts">>
Files == {PkgJson, AppTs}
FileOrder == <<PkgJson, AppTs>>       \* the order in which diff walks them
Contents == 0..MaxContent
(* a tree gives each file its content, 0 for an absent file; the source  *)
(* file is always there, the manifest may be absent                        *)
Trees == {t \in [Files -> Contents] : t[AppTs] # 0}
InitTrees == {t \in Trees : t[AppTs] = 1 /\ t[PkgJson] \in {0, 1}}
NoTree == [f \in Files |-> -1]

WorktreeNames == {"driver", "navigator", "codex", "claude"}

-----------------------------------------------------------------------------
(* Paths and diff text.                                                     *)
(* A line of diff text is a tag (how the line starts) and the words that   *)
(* follow it; a word is a token sequence.                                   *)

RootDir == <<"/", "root">>
WorktreesRoot == RootDir \o <<"/", ".orchestrator", "/", "worktrees", "/", "run">>
WorktreeDir(name) == WorktreesRoot \o <<"/", name>>
DevNull == <<"/", "dev", "/", "null">>
Tab == "\t"
Timestamp == <<"2026-01-01">>

(* The --exclude options of diffDirs / diffDirsBetween, which GNU diff     *)
(* repeats in the "diff -ruN ..." line it prints before each file.          *)
ExcludeOptions ==
    << <<"--exclude=.git">>, <<"--exclude=.orchestrator">>, <<"--exclude=node_modules">>,
       <<"--exclude=dist">>, <<"--exclude=build">> >>

Line(tag, words) == [tag |-> tag, words |-> words]

StartsWith(p, prefix) ==
    Len(p) >= Len(prefix) /\ SubSeq(p, 1, Len(prefix)) = prefix
Slice(p, n) == SubSeq(p, n + 1, Len(p))

(* A patch as the run keeps it: the trees it was computed between, the     *)
(* tool that produced it and the directories named in its headers.  The    *)
(* text is PatchText(patch).                                                *)
Patch(fmt, from, to, left, right) ==
    [fmt |-> fmt, from |-> from, to |-> to, left |-> left, right |-> right]

ChangedIn(patch) == {f \in Files : patch.from[f] # patch.to[f]}
IsEmptyPatch(patch) == ChangedIn(patch) = {}

(* the body of one file's section: content c is one line *)
HunkLines(a, b) ==
    <<Line("@@", <<>>)>>
    \o (IF a # 0 THEN <<Line("-", <<>>)>> ELSE <<>>)
    \o (IF b # 0 THEN <<Line("+", <<>>)>> ELSE <<>>)

(* git diff: one section per changed file *)
GitSection(f, a, b) ==
    <<Line("diff --git", << <<"a", "/">> \o f, <<"b", "/">> \o f >>),
      Line("---", <<IF a = 0 THEN DevNull ELSE <<"a", "/">> \o f>>),
      Line("+++", <<IF b = 0 THEN DevNull ELSE <<"b", "/">> \o f>>)>>
    \o HunkLines(a, b)

(* diff -ruN left right: one section per changed file; with -N an absent   *)
(* file is named by the path it would have.                                 *)
RuNSection(f, a, b, left, right) ==
    <<Line("diff -ruN",
           << <<"diff">>, <<"-ruN">> >> \o ExcludeOptions
              \o << left \o <<"/">> \o f, right \o <<"/">> \o f >>),
      Line("---", <<left \o <<"/">> \o f \o <<Tab>> \o Timestamp>>),
      Line("+++", <<right \o <<"/">> \o f \o <<Tab>> \o Timestamp>>)>>
    \o HunkLines(a, b)

RECURSIVE SectionsFrom(_, _)
SectionsFrom(patch, i) ==
    IF i > Len(FileOrder) THEN <<>>
    ELSE LET f == FileOrder[i] IN
         (IF f \in ChangedIn(patch)
          THEN IF patch.fmt = "git"
               THEN GitSection(f, patch.from[f], patch.to[f])
               ELSE RuNSection(f, patch.from[f], patch.to[f], patch.left, patch.right)
          ELSE <<>>)
         \o SectionsFrom(patch, i + 1)

PatchText(patch) == SectionsFrom(patch, 1)

(* gitDiff(worktree): `git diff HEAD` shows the tracked files that differ  *)
(* from HEAD; a file the agent created shows only if it was staged.         *)
gitDiff(head, tree, staged) ==
    Patch("git", head,
          [f \in Files |-> IF head[f] = 0 /\ ~staged THEN 0 ELSE tree[f]],
          <<>>, <<>>)

(* diffDirs(rootDir, worktreeDir) and diffDirsBetween(baseDir, otherDir)   *)
diffDirs(root, tree, worktreeDir) == Patch("ruN", root, tree, RootDir, worktreeDir)
diffDirsBetween(base, other, baseName, otherName) ==
    Patch("ruN", base, other, <<baseName>>, <<otherName>>)

(* summarizeDiff *)
RECURSIVE CountTag(_, _)
CountTag(lines, tag) ==
    IF lines = <<>> THEN 0
    ELSE (IF Head(lines).tag = tag THEN 1 ELSE 0) + CountTag(Tail(lines), tag)

summarizeDiff(text) == [added |-> CountTag(text, "+"), removed |-> CountTag(text, "-")]

(* extractChangedFilesFromDiff: strip() *)
RECURSIVE UpToTab(_)
UpToTab(p) ==
    IF p = <<>> \/ Head(p) = Tab THEN <<>> ELSE <<Head(p)>> \o UpToTab(Tail(p))

StripPrefix(p, prefix) ==
    IF StartsWith(p, prefix)
    THEN LET q == Slice(p, Len(prefix)) IN
         IF q # <<>> /\ Head(q) = "/" THEN Tail(q) ELSE q
    ELSE p

strip(value, rootDir, worktreeDir) ==
    LET p1 == UpToTab(value)
        p2 == IF StartsWith(p1, <<"a", "/">>) \/ StartsWith(p1, <<"b", "/">>)
              THEN Slice(p1, 2) ELSE p1
    IN StripPrefix(StripPrefix(p2, rootDir), worktreeDir)

(* the paths one line contributes *)
FilesOfLine(line, rootDir, worktreeDir) ==
    IF line.tag = "diff --git"
    THEN {strip(Slice(line.words[2], 2), rootDir, worktreeDir)}
    ELSE IF line.tag = "diff -ruN"
    THEN LET left == IF Len(line.words) >= 3 THEN line.words[3] ELSE <<>>
             right == IF Len(line.words) >= 4 THEN line.words[4] ELSE <<>>
             pick == IF right # <<>> /\ right # DevNull THEN right ELSE left
         IN IF pick # <<>> /\ pick # DevNull
            THEN {strip(pick, rootDir, worktreeDir)} ELSE {}
    ELSE IF line.tag \in {"+++", "---"}
    THEN IF line.words[1] = DevNull THEN {}
         ELSE {strip(line.words[1], rootDir, worktreeDir)}
    ELSE {}

(* extractChangedFilesFromDiff: the entries of the returned array (the     *)
(* array is the sorted list of this set without the empty path)             *)
extractChangedFilesFromDiff(text, rootDir, worktreeDir) ==
    UNION {FilesOfLine(text[i], rootDir, worktreeDir) : i \in 1..Len(text)} \ {<<>>}

-----------------------------------------------------------------------------
(* Guardrails.                                                              *)

(* globToRegExp + RegExp.test: '*' matches any run of characters, anything *)
(* else matches itself, and the whole target has to match.                  *)
RECURSIVE GlobTest(_, _)
GlobTest(glob, target) ==
    IF glob = <<>> THEN target = <<>>
    ELSE IF Head(glob) = "*"
    THEN \E k \in 0..Len(target) : GlobTest(Tail(glob), Slice(target, k))
    ELSE target # <<>> /\ Head(target) = Head(glob)
         /\ GlobTest(Tail(glob), Tail(target))

Includes(p, token) == \E i \in 1..Len(p) : p[i] = token

(* path.basename *)
RECURSIVE basename(_)
basename(p) ==
    IF Includes(p, "/") THEN basename(Tail(p)) ELSE p

matchesGlob(glob, relPath) ==
    GlobTest(glob, IF Includes(glob, "/") THEN relPath ELSE basename(relPath))

DefaultDependencyFiles ==
    { <<"package", ".json">>, <<"package-lock", ".json">>, <<"pnpm-lock", ".yaml">>,
      <<"yarn", ".lock">>, <<"bun", ".lockb">>, <<"Cargo", ".toml">>, <<"Cargo", ".lock">>,
      <<"pyproject", ".toml">>, <<"poetry", ".lock">>, <<"requirements", ".txt">>,
      <<"go", ".mod">>, <<"go", ".sum">> }

(* the set of dependency files of a guardrails configuration *)
DepFiles(g) == OrElse(g.dependencyFiles, DefaultDependencyFiles) \ {<<>>}

ForbiddenHits(g, changedFiles) ==
    {f \in changedFiles :
        \E i \in 1..Len(g.forbiddenPaths) :
            g.forbiddenPaths[i] # <<>> /\ matchesGlob(g.forbiddenPaths[i], f)}

DepHitsMut(g, changedFiles) ==
    {f \in changedFiles : f \in DepFiles(g) /\ f \notin DefaultDependencyFiles}
DepHits(g, changedFiles) == {f \in changedFiles : f \in DepFiles(g)}

(* evaluateGuardrails: the violations, in the order they are pushed, each  *)
(* named by its rule.                                                       *)
evaluateGuardrailsMut(g, changedFiles, stats) ==
    IF ~g.enabled THEN <<>>
    ELSE IF Cardinality(changedFiles) > OrElse(g.maxFilesChanged, 50)
    THEN <<"Too many files changed">>
    ELSE IF stats.added > OrElse(g.maxLinesAdded, 2000)
    THEN <<"Too many lines added">>
    ELSE IF stats.removed > OrElse(g.maxLinesRemoved, 2000)
    THEN <<"Too many lines removed">>
    ELSE IF ForbiddenHits(g, changedFiles) # {}
    THEN <<"Forbidden paths changed">>
    ELSE IF g.forbidDependencyChanges /\ DepHits(g, changedFiles) # {}
    THEN <<"Dependency files changed (not allowed)">>
    ELSE <<>>
evaluateGuardrails(g, changedFiles, stats) ==
    IF ~g.enabled THEN <<>>
    ELSE (IF Cardinality(changedFiles) > OrElse(g.maxFilesChanged, 50)
          THEN <<"Too many files changed">> ELSE <<>>)
      \o (IF stats.added > OrElse(g.maxLinesAdded, 2000)
          THEN <<"Too many lines added">> ELSE <<>>)
      \o (IF stats.removed > OrElse(g.maxLinesRemoved, 2000)
          THEN <<"Too many lines removed">> ELSE <<>>)
      \o (IF ForbiddenHits(g, changedFiles) # {}
          THEN <<"Forbidden paths changed">> ELSE <<>>)
      \o (IF g.forbidDependencyChanges /\ DepHits(g, changedFiles) # {}
          THEN <<"Dependency files changed (not allowed)">> ELSE <<>>)

(* applyWinnerPatch: the violations of a patch as the guardrail check of   *)
(* the apply step computes them.                                            *)
GuardrailViolations(c, patchText, sourceWorktreeDir) ==
    evaluateGuardrails(c.guardrails,
        extractChangedFilesFromDiff(patchText, RootDir,
            IF c.isGit THEN RootDir ELSE sourceWorktreeDir),
        summarizeDiff(patchText))

-----------------------------------------------------------------------------
(* The run directory and the transcript. *)

Absent == [absent |-> TRUE]
ArtifactNames ==
    {"plan", "propose", "decide/decision.json", "execution_plan/final.md",
     "implement/codex/diff.patch", "implement/claude/diff.patch",
     "implement/joint/final.patch", "implement/joint/meta.json",
     "review/codex.md", "review/claude.md",
     "converge/critic.json", "converge/review.json",   \* of the latest round
     "converge/final.patch", "converge/meta.json",
     "final/winner.json", "final/final.patch", "final/summary.md",
     "final/apply.log", "final/tests.log"}

Written == [written |-> TRUE]

PhaseNames ==
    {"plan", "propose", "judge", "execution-plan", "implement", "collab",
     "review", "converge"}

Event(phase, kind, content) == [phase |-> phase, kind |-> kind, content |-> content]
Note(phase, text) == Event(phase, "note", text)

NoPatch == Patch("none", NoTree, NoTree, <<>>, <<>>)
TestExits == {0, 1}                  \* exit codes of the test command

(* exec.ts: RunResult, as far as the orchestrator reads it *)
RunResult(exitCode, timedOut) == [exitCode |-> exitCode, timedOut |-> timedOut]

(* The locals of the function that is running. *)
NoLocals ==
    [finalDecision |-> Undef,        \* runDecisionPhase: finalDecision
     lastTestExit |-> NoneV,         \* joint / converge: lastTestExit
     lastApplyOk |-> TRUE,           \* joint: lastApplyOk
     executed |-> 0,                 \* rounds whose body has run
     navigatorPatch |-> NoPatch,     \* joint: navigatorPatch of the latest round
     currentDiff |-> NoPatch,        \* converge: currentDiff
     finalReview |-> <<>>,           \* converge: finalReview.blockers
     blockers |-> 0]                 \* converge: finalReview.blockers.length

-----------------------------------------------------------------------------
(* Decision records. *)

Rationale(kind, n) == [kind |-> kind, n |-> n]
Decision(mode, winner, rationale, judgeAgent) ==
    [mode |-> mode, winner |-> winner, rationale |-> rationale,
     judgeAgent |-> judgeAgent, executionDriver |-> Undef]
NoDecision == Decision(Undef, Undef, Rationale("none", 0), Undef)
NoPicks == [a \in AgentNames |-> JNull]
NoRoles == [driver |-> Undef, navigator |-> Undef, fixer |-> Undef, critic |-> Undef]

(* runDecisionPhase, judge mode: the Decision built from the parsed output *)
JudgeDecisionMut(mode, parsed, judgeAgent) ==
    Decision(mode,
             IF WinnerOf(parsed) # Undef THEN WinnerOf(parsed) ELSE "codex",
             Rationale("judge", 0),
             judgeAgent)
JudgeDecision(mode, parsed, judgeAgent) ==
    Decision(mode,
             IF WinnerOf(parsed) # Undef THEN WinnerOf(parsed) ELSE "neither",
             IF RationaleOf(parsed) # Undef THEN Rationale("judge", 0)
             ELSE Rationale("Judge output was not parseable. Defaulting to neither.", 0),
             judgeAgent)

(* runDecisionPhase, debate mode: the consensus test on two parsed picks   *)
ConsensusMut(codexPick, claudePick) ==
    /\ WinnerOf(codexPick) \in AgentNames
    /\ WinnerOf(codexPick) = WinnerOf(claudePick)
Consensus(codexPick, claudePick) ==
    /\ TruthyStr(WinnerOf(codexPick))
    /\ TruthyStr(WinnerOf(claudePick))
    /\ WinnerOf(codexPick) = WinnerOf(claudePick)

(* runDecisionPhase, debate mode: the guard of the round loop,             *)
(* round <= (decisionConfig.debateRounds ?? 1)                              *)
DebateRoundsLeftMut(c, k) == k < OrElse(c.debateRounds, 1)
DebateRoundsLeft(c, k) == k <= OrElse(c.debateRounds, 1)

(* resolveDriver(configured, decision) *)
resolveDriver(configured, d) ==
    IF d.executionDriver # Undef THEN d.executionDriver
    ELSE IF configured # Undef /\ configured # "auto" THEN configured
    ELSE IF d.winner # "neither" THEN d.winner
    ELSE "codex"

(* runDecisionPhase, rule-based modes *)
RuleDecisionMut(mode) == Decision(mode, "codex", Rationale("Rule-based decision", 0), Undef)
RuleDecision(mode) ==
    Decision(mode,
             IF mode = "prefer-codex" THEN "codex"
             ELSE IF mode = "prefer-claude" THEN "claude" ELSE "neither",
             Rationale("Rule-based decision", 0),
             Undef)

-----------------------------------------------------------------------------
(* Initial state: orchestrate() has read the configuration and created the *)
(* run directory; nothing has run yet.                                      *)

(* Sessions.  A session id given with --session is 0; without one,         *)
(* timestampId("session") makes an id no earlier invocation has used: the  *)
(* number of the invocation.                                                *)
SessionIds == 0..MaxInvocations
SessionIdOf(c, n) == OrElse(c.sessionId, n)
SessionFile(sessionId, task) == [sessionId |-> sessionId, task |-> task]
RunContext(sessionId, task) == [sessionId |-> sessionId, task |-> task]
NoContext == RunContext(-1, "")

(* orchestrate: sessionTask, the stored task when session.json exists *)
SessionTaskMut(stored, task) == task
SessionTask(stored, task) == IF stored # Absent THEN stored.task ELSE task

(* orchestrate: session.json is written only when it does not exist *)
OpenedSessions(stored, sessionId, task) ==
    IF stored[sessionId] # Absent THEN stored
    ELSE [stored EXCEPT ![sessionId] = SessionFile(sessionId, task)]

InitWith(configs, trees) ==
    /\ cfg \in {EffectiveConfig(c) : c \in configs}
    /\ pc = "verify"
    /\ invocations = 1
    /\ guardrailChecks = 0
    /\ sessions = OpenedSessions([s \in SessionIds |-> Absent], SessionIdOf(cfg, 1), cfg.task)
    /\ context = RunContext(SessionIdOf(cfg, 1), cfg.task)
    /\ phases = <<>>
    /\ art = [a \in ArtifactNames |-> Absent]
    /\ decisionWrites = 0
    /\ transcript = <<>>
    /\ decision = NoDecision
    /\ debateDirs = {}
    /\ picks = NoPicks
    /\ round = 0
    /\ roles = NoRoles
    /\ rootTree \in trees
    /\ wt = [w \in WorktreeNames |-> NoTree]
    /\ loop = NoLocals
    /\ calls = [p \in PhaseNames |-> 0]
    /\ procs = {}
    /\ callLog = <<>>
    /\ lastResult = NoneV

Called(phase) == [calls EXCEPT ![phase] = @ + 1]

-----------------------------------------------------------------------------
(* orchestrate: verifyAgents, then the plan and propose phases.             *)

VerifyAgents ==
    /\ pc = "verify"
    /\ pc' = IF verificationFailures(EffectiveConfig(cfg).agents) # {} THEN "aborted" ELSE "analysis"
    /\ UNCHANGED <<exec, store, guardrailChecks, cfg, phases, art, decisionWrites, transcript, decision, debateDirs,
                   picks, round, roles, rootTree, wt, loop, calls>>

RunPlanPhase ==
    /\ pc = "plan"
    /\ phases' = Append(phases, "plan")
    /\ calls' = [calls EXCEPT !["plan"] = @ + 2]
    /\ art' = [art EXCEPT !["plan"] = Written]
    /\ pc' = "propose"
    /\ UNCHANGED <<exec, store, guardrailChecks, cfg, decisionWrites, transcript, decision, debateDirs,
                   picks, round, roles, rootTree, wt, loop>>

RunProposePhase ==
    /\ pc = "propose"
    /\ phases' = Append(phases, "propose")
    /\ calls' = [calls EXCEPT !["propose"] = @ + 2]
    /\ art' = [art EXCEPT !["propose"] = Written]
    /\ pc' = "decide"
    /\ UNCHANGED <<exec, store, guardrailChecks, cfg, decisionWrites, transcript, decision, debateDirs,
                   picks, round, roles, rootTree, wt, loop>>

-----------------------------------------------------------------------------
(* runDecisionPhase *)

(* writeText(decide/decision.json) *)
WriteDecision(d) ==
    /\ art' = [art EXCEPT !["decide/decision.json"] = d]
    /\ decisionWrites' = decisionWrites + 1

RunDecisionPhase ==
    /\ pc = "decide"
    /\ phases' = Append(phases, "decide")
    /\ pc' = IF ModeOf(cfg) = "judge" THEN "decide_judge"
             ELSE IF ModeOf(cfg) = "debate" THEN "debate_initial_codex"
             ELSE "decide_rule"
    /\ UNCHANGED <<exec, store, guardrailChecks, cfg, art, decisionWrites, transcript, decision, debateDirs,
                   picks, round, roles, rootTree, wt, loop, calls>>

DecideJudge ==
    /\ pc = "decide_judge"
    /\ \E text \in Texts :
          LET judgeAgent == IF cfg.judgeAgent # Undef THEN cfg.judgeAgent ELSE "codex"
              parsed == extractJson(text)
              d == JudgeDecision(ModeOf(cfg), parsed, judgeAgent)
          IN /\ picks' = [picks EXCEPT ![judgeAgent] = parsed]
             /\ decision' = d
             /\ WriteDecision(d)
             /\ transcript' = Append(transcript, Event("judge", "decision", d))
    /\ calls' = Called("judge")
    /\ pc' = "execution_plan"
    /\ UNCHANGED <<exec, store, guardrailChecks, cfg, phases, debateDirs, round, roles, rootTree, wt, loop>>

DebateInitialCodex ==
    /\ pc = "debate_initial_codex"
    /\ \E text \in Texts : picks' = [picks EXCEPT !["codex"] = extractJson(text)]
    /\ calls' = Called("judge")
    /\ pc' = "debate_initial_claude"
    /\ UNCHANGED <<exec, store, guardrailChecks, cfg, phases, art, decisionWrites, transcript, decision, debateDirs,
                   round, roles, rootTree, wt, loop>>

(* the second initial judgment, then the consensus test on the two         *)
DebateInitialClaude ==
    /\ pc = "debate_initial_claude"
    /\ calls' = Called("judge")
    /\ \E text \in Texts :
          LET claudePick == extractJson(text) IN
          /\ picks' = [picks EXCEPT !["claude"] = claudePick]
          /\ IF Consensus(picks["codex"], claudePick)
             THEN LET d == Decision(ModeOf(cfg), WinnerOf(picks["codex"]),
                                    Rationale("Consensus after initial judgment", 0),
                                    Undef)
                  IN /\ decision' = d
                     /\ WriteDecision(d)
                     /\ pc' = "execution_plan"
                     /\ UNCHANGED round
             ELSE /\ round' = 1
                  /\ pc' = "debate_round"
                  /\ UNCHANGED <<decision, art, decisionWrites>>
    /\ UNCHANGED <<exec, store, guardrailChecks, cfg, phases, transcript, debateDirs, roles, rootTree, wt, loop>>

(* for (let round = 1; round <= rounds; round += 1): ensureDir(debateDir)  *)
DebateRoundBegin ==
    /\ pc = "debate_round"
    /\ DebateRoundsLeft(cfg, round)
    /\ debateDirs' = debateDirs \cup {round}
    /\ pc' = "debate_round_codex"
    /\ UNCHANGED <<exec, store, guardrailChecks, cfg, phases, art, decisionWrites, transcript, decision,
                   picks, round, roles, rootTree, wt, loop, calls>>

DebateRoundCodex ==
    /\ pc = "debate_round_codex"
    /\ \E text \in Texts : picks' = [picks EXCEPT !["codex"] = extractJson(text)]
    /\ calls' = Called("judge")
    /\ pc' = "debate_round_claude"
    /\ UNCHANGED <<exec, store, guardrailChecks, cfg, phases, art, decisionWrites, transcript, decision, debateDirs,
                   round, roles, rootTree, wt, loop>>

DebateRoundClaude ==
    /\ pc = "debate_round_claude"
    /\ calls' = Called("judge")
    /\ \E text \in Texts :
          LET claudePick == extractJson(text) IN
          /\ picks' = [picks EXCEPT !["claude"] = claudePick]
          /\ IF Consensus(picks["codex"], claudePick)
             THEN /\ loop' = [loop EXCEPT !.finalDecision = WinnerOf(picks["codex"])]
                  /\ pc' = "debate_finish"
                  /\ UNCHANGED round
             ELSE /\ round' = round + 1
                  /\ pc' = "debate_round"
                  /\ UNCHANGED loop
    /\ UNCHANGED <<exec, store, guardrailChecks, cfg, phases, art, decisionWrites, transcript, decision, debateDirs,
                   roles, rootTree, wt>>

DebateFinish ==
    /\ IF pc = "debate_round" THEN ~DebateRoundsLeft(cfg, round)
       ELSE pc = "debate_finish"
    /\ LET d == IF loop.finalDecision # Undef
                THEN Decision(ModeOf(cfg), loop.finalDecision,
                              Rationale("Consensus after debate round", round), Undef)
                ELSE Decision(ModeOf(cfg), "neither",
                              Rationale("Judges did not converge after debate rounds.", 0),
                              Undef)
       IN /\ decision' = d
          /\ WriteDecision(d)
          /\ transcript' = Append(transcript, Event("debate", "decision", d))
    /\ pc' = "execution_plan"
    /\ UNCHANGED <<exec, store, guardrailChecks, cfg, phases, debateDirs, picks, round, roles, rootTree, wt, loop, calls>>

DecideRule ==
    /\ pc = "decide_rule"
    /\ LET d == RuleDecision(ModeOf(cfg))
       IN /\ decision' = d
          /\ WriteDecision(d)
          /\ transcript' = Append(transcript, Event("decide", "decision", d))
    /\ pc' = "execution_plan"
    /\ UNCHANGED <<exec, store, guardrailChecks, cfg, phases, debateDirs, picks, round, roles, rootTree, wt, loop, calls>>

DecisionActions ==
    \/ RunDecisionPhase
    \/ DecideJudge
    \/ DebateInitialCodex
    \/ DebateInitialClaude
    \/ DebateRoundBegin
    \/ DebateRoundCodex
    \/ DebateRoundClaude
    \/ DebateFinish
    \/ DecideRule

(* ensureAnalysisWorktrees: with context.isolateWorkspaces, a workspace of *)
(* its own for each agent under worktrees/<run>/analysis; making one can   *)
(* throw, which ends the run                                                *)
AnalysisDir(agent) == WorktreesRoot \o <<"/", "analysis", "/", agent>>
ensureAnalysisWorktreesMut(c) == [a \in AgentNames |-> NoneV]
ensureAnalysisWorktrees(c) ==
    [a \in AgentNames |-> IF c.isolateWorkspaces THEN Some(AnalysisDir(a)) ELSE NoneV]

EnsureAnalysisWorktrees ==
    /\ pc = "analysis"
    /\ IF cfg.isolateWorkspaces
       THEN \E made \in BOOLEAN : pc' = IF made THEN "plan" ELSE "crashed"
       ELSE pc' = "plan"
    /\ UNCHANGED <<exec, store, guardrailChecks, cfg, phases, art, decisionWrites, transcript, decision, debateDirs,
                   picks, round, roles, rootTree, wt, loop, calls>>

PreludeActions ==
    \/ VerifyAgents
    \/ EnsureAnalysisWorktrees
    \/ RunPlanPhase
    \/ RunProposePhase

-----------------------------------------------------------------------------
(* runExecutionPlanPhase: the planner drafts, the reviewer reviews, the    *)
(* planner finalizes.  The planner is looked up in config.agents by the    *)
(* decision's winner; a winner that names no agent makes the first agent   *)
(* call throw, and orchestrate() does not catch it.                         *)

PlannerMut(d) == "codex"
Planner(d) == IF d.winner = "neither" THEN "codex" ELSE d.winner

RunExecutionPlanPhase ==
    /\ pc = "execution_plan"
    /\ phases' = Append(phases, "execution_plan")
    /\ picks' = NoPicks
    /\ loop' = NoLocals
    /\ round' = 0
    /\ IF Planner(decision) \in AgentNames
       THEN /\ calls' = [calls EXCEPT !["execution-plan"] = @ + 3]
            /\ art' = [art EXCEPT !["execution_plan/final.md"] = Written]
            /\ pc' = IF cfg.interactive THEN "interactive" ELSE "implement"
       ELSE /\ pc' = "crashed"
            /\ UNCHANGED <<calls, art>>
    /\ UNCHANGED <<exec, store, guardrailChecks, cfg, decisionWrites, transcript, decision, debateDirs, roles,
                   rootTree, wt>>

(* orchestrate: decision.executionDriver = driverChoice *)
OverrideDriverMut(d, driverChoice) ==
    [d EXCEPT !.executionDriver = driverChoice, !.winner = driverChoice]
OverrideDriver(d, driverChoice) == [d EXCEPT !.executionDriver = driverChoice]

(* orchestrate: the approval gate of --interactive.  On a terminal the     *)
(* user approves or declines and picks the driver; otherwise the run is    *)
(* approved with the automatic driver.                                      *)
(* if (!shouldExecute) { ...; await runFinalPhase(...); ...; return; }     *)
GateTargetMut(shouldExecute) == "implement"
GateTarget(shouldExecute) == IF shouldExecute THEN "implement" ELSE "final_skipped"

InteractiveGate ==
    /\ pc = "interactive"
    /\ \E shouldExecute \in (IF cfg.isTTY THEN BOOLEAN ELSE {TRUE}) :
       \E driverChoice \in (IF cfg.isTTY /\ shouldExecute
                            THEN {"auto", "codex", "claude"} ELSE {"auto"}) :
          LET waiting == Note("interactive", <<"Execution plan generated">>)
              asked == <<waiting>> \o
                       (IF cfg.isTTY
                       THEN <<Note("interactive",
                                   IF shouldExecute THEN <<"User approval: yes">>
                                   ELSE <<"User approval: no">>)>>
                            \o (IF shouldExecute
                                THEN <<Note("interactive", <<"Driver choice", driverChoice>>)>>
                                ELSE <<>>)
                       ELSE <<Note("interactive", <<"Non-TTY stdin detected">>)>>)
          IN IF ~shouldExecute
             THEN /\ transcript' = transcript \o asked
                        \o <<Note("interactive", <<"Execution skipped by user.">>)>>
                  /\ pc' = GateTarget(shouldExecute)
                  /\ UNCHANGED decision
             ELSE IF driverChoice \in AgentNames
             THEN /\ decision' = OverrideDriver(decision, driverChoice)
                  /\ transcript' = transcript \o asked
                        \o <<Note("interactive",
                                  <<"Execution driver overridden to", driverChoice>>)>>
                  /\ pc' = "implement"
             ELSE /\ transcript' = transcript \o asked
                  /\ pc' = "implement"
                  /\ UNCHANGED decision
    /\ UNCHANGED <<exec, store, guardrailChecks, cfg, phases, art, decisionWrites, debateDirs, picks, round, roles,
                   rootTree, wt, loop, calls>>

-----------------------------------------------------------------------------
(* runImplementationPhase                                                   *)

(* The worktree of a run starts as the project: `git worktree add` of HEAD *)
(* (the working tree is clean) or copyWorkspace(rootDir).                   *)
NewWorktree == rootTree

(* gitDiff(worktree) or diffDirs(rootDir, worktree), by the kind of project *)
WorktreeDiff(tree, name, staged) ==
    IF cfg.isGit THEN gitDiff(rootTree, tree, staged)
    ELSE diffDirs(rootTree, tree, WorktreeDir(name))

MaxRoundsOf(c) == OrElse(c.maxRounds, 1)

(* runTestsOnce when the loop runs tests, else no exit code *)
LoopTestExits(c) ==
    IF c.testsDuringLoop /\ c.testsEnabled THEN {Some(e) : e \in TestExits} ELSE {NoneV}

RunImplementationPhase ==
    /\ pc = "implement"
    /\ phases' = Append(phases, "implement")
    /\ IF cfg.implMode = "joint"
       THEN LET driver == resolveDriver(cfg.implDriver, decision) IN
            /\ roles' = [roles EXCEPT !.driver = driver, !.navigator = otherAgent(driver)]
            /\ wt' = [wt EXCEPT !["driver"] = NewWorktree]
            /\ round' = 1
            /\ pc' = "joint_round"
       ELSE /\ pc' = "parallel_codex"
            /\ UNCHANGED <<roles, wt, round>>
    /\ loop' = NoLocals
    /\ UNCHANGED <<exec, store, guardrailChecks, cfg, art, decisionWrites, transcript, decision, debateDirs, picks,
                   rootTree, calls>>

(* runImplementationPhaseParallel: one agent in its own worktree *)
ImplementParallel(agent) ==
    /\ pc = IF agent = "codex" THEN "parallel_codex" ELSE "parallel_claude"
    /\ \E edited \in Trees, staged \in BOOLEAN :
          /\ wt' = [wt EXCEPT ![agent] = edited]
          /\ art' = [art EXCEPT ![IF agent = "codex" THEN "implement/codex/diff.patch"
                                  ELSE "implement/claude/diff.patch"] =
                                     WorktreeDiff(edited, agent, staged)]
    /\ calls' = Called("implement")
    /\ pc' = IF agent = "codex" THEN "parallel_claude" ELSE "review"
    /\ UNCHANGED <<exec, store, guardrailChecks, cfg, phases, decisionWrites, transcript, decision, debateDirs, picks,
                   round, roles, rootTree, loop>>

(* runImplementationPhaseJoint, first half of a round: the driver edits    *)
(* the driver worktree and the navigator worktree is cloned from it.  (The *)
(* exit code of the tests run here only reaches the navigator's prompt.)   *)
JointDriver ==
    /\ pc = "joint_round"
    /\ round <= MaxRoundsOf(cfg)
    /\ \E edited \in Trees :
          wt' = [wt EXCEPT !["driver"] = edited, !["navigator"] = edited]
    /\ calls' = Called("implement")
    /\ pc' = "joint_navigator"
    /\ UNCHANGED <<exec, store, guardrailChecks, cfg, phases, art, decisionWrites, transcript, decision, debateDirs,
                   picks, round, roles, rootTree, loop>>

(* applyPatchToWorktree: `git apply` changes nothing when it fails; `patch` *)
(* may have changed some of the files.                                      *)
ApplyOutcomes(tree, patch, isGit) ==
    {[applied |-> TRUE, tree |-> patch.to]}
    \cup {[applied |-> FALSE, tree |-> t] :
            t \in {u \in Trees :
                     /\ u # patch.to
                     /\ \A f \in Files : u[f] \in {tree[f], patch.to[f]}
                     /\ isGit => u = tree}}

(* the early stop of the joint loop *)
NoNavigatorChangesMut(navigatorPatch, testExit) ==
    IsEmptyPatch(navigatorPatch) /\ testExit = NoneV
NoNavigatorChanges(navigatorPatch, testExit) ==
    IsEmptyPatch(navigatorPatch) /\ (testExit = NoneV \/ testExit = Some(0))

TestsFailing(testExit) == testExit # NoneV /\ testExit # Some(0)

(* the two breaks at the end of a round *)
StopAfterRoundMut(stopNoChanges, lastApplyOk) == stopNoChanges
StopAfterRound(stopNoChanges, lastApplyOk) == stopNoChanges \/ ~lastApplyOk

(* second half of a round: the navigator edits its clone (the directory    *)
(* navigator_round_<k>, named "navigator" here), its patch is               *)
(* applied to the driver worktree, tests run again, then the stop and swap *)
(* decisions.                                                               *)
JointNavigator ==
    /\ pc = "joint_navigator"
    /\ calls' = Called("collab")
    /\ \E edited \in Trees, testExit \in LoopTestExits(cfg) :
          LET navigatorPatch == diffDirsBetween(wt["driver"], edited, "driver", "navigator")
              applyNavigatorPatch == IF cfg.applyNavigatorPatch = Undef THEN "auto"
                                     ELSE cfg.applyNavigatorPatch
              tryApply == applyNavigatorPatch = "auto" /\ ~IsEmptyPatch(navigatorPatch)
          IN \E outcome \in (IF tryApply
                             THEN ApplyOutcomes(wt["driver"], navigatorPatch, cfg.isGit)
                             ELSE {[applied |-> FALSE, tree |-> wt["driver"]]}) :
             LET lastApplyOk == outcome.applied \/ IsEmptyPatch(navigatorPatch)
                 stopNoChanges == NoNavigatorChanges(navigatorPatch, testExit)
                 stop == StopAfterRound(stopNoChanges, lastApplyOk)
                 swap == ~stop /\ (IF cfg.swapDriverOnFail /\ TestsFailing(testExit)
                                   THEN TRUE
                                   ELSE cfg.swapDriverEachRound /\ round < MaxRoundsOf(cfg))
             IN /\ wt' = [wt EXCEPT !["navigator"] = edited, !["driver"] = outcome.tree]
                /\ loop' = [loop EXCEPT !.navigatorPatch = navigatorPatch,
                                        !.lastTestExit = testExit,
                                        !.lastApplyOk = lastApplyOk,
                                        !.executed = @ + 1]
                /\ transcript' =
                     IF stopNoChanges
                     THEN Append(transcript,
                                 Note("implement",
                                      IF testExit = Some(0)
                                      THEN <<"Stopping early: tests passing and no navigator changes.">>
                                      ELSE <<"Stopping early: no navigator changes.">>))
                     ELSE IF ~lastApplyOk
                     THEN Append(transcript, Note("implement", <<"Stopping early: navigator patch failed to apply.">>))
                     ELSE transcript
                /\ roles' = IF swap
                            THEN [roles EXCEPT !.driver = roles.navigator,
                                               !.navigator = otherAgent(roles.navigator)]
                            ELSE roles
                /\ IF stop
                   THEN pc' = "joint_finish" /\ UNCHANGED round
                   ELSE pc' = "joint_round" /\ round' = round + 1
    /\ UNCHANGED <<exec, store, guardrailChecks, cfg, phases, art, decisionWrites, decision, debateDirs, picks, rootTree>>

(* after the loop: final.patch and meta.json of the joint implementation   *)
JointFinish ==
    /\ IF pc = "joint_round" THEN round > MaxRoundsOf(cfg) ELSE pc = "joint_finish"
    /\ \E staged \in BOOLEAN :
          art' = [art EXCEPT !["implement/joint/final.patch"] =
                                  WorktreeDiff(wt["driver"], "driver", staged),
                             !["implement/joint/meta.json"] =
                                  [driver |-> roles.driver, navigator |-> roles.navigator,
                                   rounds |-> MaxRoundsOf(cfg)]]
    /\ wt' = [wt EXCEPT !["navigator"] = NoTree]   \* the clones are not used again
    /\ pc' = "review"
    /\ UNCHANGED <<exec, store, guardrailChecks, cfg, phases, decisionWrites, transcript, decision, debateDirs, picks,
                   round, roles, rootTree, loop, calls>>

ImplementationActions ==
    \/ RunImplementationPhase
    \/ ImplementParallel("codex")
    \/ ImplementParallel("claude")
    \/ JointDriver
    \/ JointNavigator
    \/ JointFinish

-----------------------------------------------------------------------------
(* Reviews.  A review text either holds no JSON value or holds an object   *)
(* whose blockers are listed by their summaries.                            *)

ReviewText(parses, blockers) == [parses |-> parses, blockers |-> blockers]
ReviewTexts ==
    {ReviewText(FALSE, <<>>)}
    \cup {ReviewText(TRUE, b) : b \in {<<>>, <<"s">>, <<"">>, <<"s", "">>}}

(* parseReviewSummary: null, or the blockers that have a summary *)
parseReviewSummary(text) ==
    IF text = Absent \/ ~text.parses THEN NoneV
    ELSE Some(SelectSeq(text.blockers, LAMBDA summary : summary # ""))

RECURSIVE mergeReviewSummaries(_)
mergeReviewSummaries(summaries) ==
    IF summaries = <<>> THEN <<>>
    ELSE Head(summaries) \o mergeReviewSummaries(Tail(summaries))

(* [..].filter(Boolean) on parsed summaries *)
Parsed(opts) ==
    LET present == SelectSeq(opts, LAMBDA o : o # NoneV)
    IN [i \in 1..Len(present) |-> present[i][1]]

Reviewers(c) == IF c.reviewer = "both" THEN <<"codex", "claude">> ELSE <<c.reviewer>>
ReviewFile(reviewer) == IF reviewer = "codex" THEN "review/codex.md" ELSE "review/claude.md"
DiffFile(agent) ==
    IF agent = "codex" THEN "implement/codex/diff.patch" ELSE "implement/claude/diff.patch"

readReviewSummaries(files, reviewers) ==
    mergeReviewSummaries(Parsed([i \in 1..Len(reviewers) |->
                                    parseReviewSummary(files[ReviewFile(reviewers[i])])]))

(* the worktree the review and converge phases work in *)
CanonicalWorktree(c, d) == IF c.implMode = "joint" THEN "driver" ELSE d.winner

(* runReviewPhase: returns at once when reviews are off, when a parallel   *)
(* run has no winner, or when the implementation patch is empty.            *)
ReviewRuns(c, d, files) ==
    /\ c.reviewEnabled
    /\ ~(c.implMode # "joint" /\ d.winner = "neither")
    /\ LET diffText == IF c.implMode = "joint" THEN files["implement/joint/final.patch"]
                       ELSE files[DiffFile(d.winner)]
       IN diffText # Absent /\ ~IsEmptyPatch(diffText)

(* The reviewers and the critic are the same agent commands as the        *)
(* implementers (codex exec --full-auto, claude --permission-mode         *)
(* acceptEdits), started with the canonical worktree as their working     *)
(* directory: a review call may leave that worktree as it was or with a   *)
(* file rewritten.                                                         *)
Touched(tree) == [tree EXCEPT ![AppTs] = IF @ = MaxContent THEN 1 ELSE @ + 1]
AgentLeavesMut(tree) == {tree}
AgentLeaves(tree) == {tree, Touched(tree)}

RunReviewPhase ==
    /\ pc = "review"
    /\ phases' = Append(phases, "review")
    /\ IF ReviewRuns(cfg, decision, art)
       THEN \E codexText \in ReviewTexts, claudeText \in ReviewTexts :
               /\ art' = [a \in ArtifactNames |->
                            IF a = "review/codex.md" /\ cfg.reviewer \in {"both", "codex"}
                            THEN codexText
                            ELSE IF a = "review/claude.md" /\ cfg.reviewer \in {"both", "claude"}
                            THEN claudeText
                            ELSE art[a]]
               /\ calls' = [calls EXCEPT !["review"] = @ + Len(Reviewers(cfg))]
               /\ LET canonical == CanonicalWorktree(cfg, decision) IN
                  \E left \in AgentLeaves(wt[canonical]) :
                     wt' = [wt EXCEPT ![canonical] = left]
       ELSE UNCHANGED <<art, calls, wt>>
    /\ loop' = NoLocals
    /\ round' = 0
    /\ pc' = "converge"
    /\ UNCHANGED <<exec, store, guardrailChecks, cfg, decisionWrites, transcript, decision, debateDirs, picks,
                   roles, rootTree>>

-----------------------------------------------------------------------------
(* runConvergePhase                                                         *)

Max(a, b) == IF a >= b THEN a ELSE b

(* const maxRounds = Math.max(1, config.converge.maxRounds ?? 1) *)
ConvergeMaxRoundsMut(c) == Max(1, OrElse(c.convergeMaxRounds, 1)) + 1
ConvergeMaxRounds(c) == Max(1, OrElse(c.convergeMaxRounds, 1))

(* config.tests?.enabled ? runTestsOnce(...).exitCode : null *)
TestRun(c) == IF c.testsEnabled THEN {Some(e) : e \in TestExits} ELSE {NoneV}

ConvergeRuns(c, d, worktrees) ==
    /\ c.convergeEnabled
    /\ c.reviewEnabled
    /\ ~(c.implMode # "joint" /\ d.winner = "neither")
    /\ worktrees[CanonicalWorktree(c, d)] # NoTree

(* needsConverge *)
NeedsConvergeMut(blockers, lastTestExit) == TRUE
NeedsConverge(blockers, lastTestExit) ==
    Len(blockers) > 0 \/ (lastTestExit # NoneV /\ lastTestExit # Some(0))

(* the loop's exit test after the critic's review *)
ConvergeCompleteMut(blockers, lastTestExit) == Len(blockers) = 0
ConvergeComplete(blockers, lastTestExit) ==
    Len(blockers) = 0 /\ (lastTestExit = NoneV \/ lastTestExit = Some(0))

RunConvergePhase ==
    /\ pc = "converge"
    /\ phases' = Append(phases, "converge")
    /\ IF ConvergeRuns(cfg, decision, wt)
       THEN \E lastTestExit \in TestRun(cfg) :
               LET fixer == IF cfg.implMode = "joint"
                            THEN art["implement/joint/meta.json"].driver
                            ELSE decision.winner
                   initialReview == readReviewSummaries(art, Reviewers(cfg))
               IN IF NeedsConverge(initialReview, lastTestExit)
                  THEN /\ roles' = [roles EXCEPT !.fixer = fixer, !.critic = otherAgent(fixer)]
                       /\ loop' = [NoLocals EXCEPT !.lastTestExit = lastTestExit,
                                                   !.finalReview = initialReview,
                                                   !.blockers = Len(initialReview)]
                       /\ round' = 1
                       /\ pc' = "converge_round"
                  ELSE /\ pc' = "final"
                       /\ UNCHANGED <<roles, loop, round>>
       ELSE /\ pc' = "final"
            /\ UNCHANGED <<roles, loop, round>>
    /\ UNCHANGED <<exec, store, guardrailChecks, cfg, art, decisionWrites, transcript, decision, debateDirs, picks,
                   rootTree, wt, calls>>

(* first half of a converge round: the fixer edits the canonical worktree, *)
(* the diff is recomputed, tests run.                                       *)
ConvergeFixer ==
    /\ pc = "converge_round"
    /\ round <= ConvergeMaxRounds(cfg)
    /\ LET canonical == CanonicalWorktree(cfg, decision) IN
       \E edited \in Trees, staged \in BOOLEAN, testExit \in TestRun(cfg) :
          /\ wt' = [wt EXCEPT ![canonical] = edited]
          /\ loop' = [loop EXCEPT !.currentDiff = WorktreeDiff(edited, canonical, staged),
                                  !.lastTestExit = testExit]
    /\ calls' = Called("converge")
    /\ pc' = "converge_critic"
    /\ UNCHANGED <<exec, store, guardrailChecks, cfg, phases, art, decisionWrites, transcript, decision, debateDirs,
                   picks, round, roles, rootTree>>

(* second half: the critic's review replaces the review so far; stop when  *)
(* it has no blockers and tests are absent or pass, else swap and go on.   *)
ConvergeCritic ==
    /\ pc = "converge_critic"
    /\ calls' = Called("review")
    /\ LET canonical == CanonicalWorktree(cfg, decision) IN
       \E left \in AgentLeaves(wt[canonical]) :
          wt' = [wt EXCEPT ![canonical] = left]
    /\ \E criticText \in ReviewTexts :
          LET finalReview == mergeReviewSummaries(Parsed(<<parseReviewSummary(criticText)>>))
          IN /\ art' = [art EXCEPT !["converge/critic.json"] = criticText,
                                   !["converge/review.json"] = [blockers |-> finalReview]]
             /\ loop' = [loop EXCEPT !.finalReview = finalReview,
                                     !.blockers = Len(finalReview), !.executed = @ + 1]
             /\ IF ConvergeComplete(finalReview, loop.lastTestExit)
                THEN /\ transcript' = Append(transcript,
                                             Note("converge", <<"Converge complete">>))
                     /\ pc' = "converge_finish"
                     /\ UNCHANGED <<round, roles>>
                ELSE /\ roles' = IF round < ConvergeMaxRounds(cfg)
                                 THEN [roles EXCEPT !.fixer = roles.critic,
                                                    !.critic = otherAgent(roles.critic)]
                                 ELSE roles
                     /\ round' = round + 1
                     /\ pc' = "converge_round"
                     /\ UNCHANGED transcript
    /\ UNCHANGED <<exec, store, guardrailChecks, cfg, phases, decisionWrites, decision, debateDirs, picks,
                   rootTree>>

(* after the loop: converge/final.patch and converge/meta.json *)
ConvergeFinish ==
    /\ IF pc = "converge_round" THEN round > ConvergeMaxRounds(cfg)
       ELSE pc = "converge_finish"
    /\ art' = [art EXCEPT !["converge/final.patch"] = loop.currentDiff,
                          !["converge/meta.json"] = [final |-> loop.finalReview]]
    /\ pc' = "final"
    /\ UNCHANGED <<exec, store, guardrailChecks, cfg, phases, decisionWrites, transcript, decision, debateDirs, picks,
                   round, roles, rootTree, wt, loop, calls>>

ReviewActions ==
    \/ RunReviewPhase
    \/ RunConvergePhase
    \/ ConvergeFixer
    \/ ConvergeCritic
    \/ ConvergeFinish

-----------------------------------------------------------------------------
(* runFinalPhase                                                            *)

(* the patch the final phase publishes: the converge patch if there is     *)
(* one, else the implementation's; none for a parallel run with no winner  *)
FinalPatchSourceMut(c, d, files) ==
    IF c.implMode = "joint" THEN "implement/joint/final.patch"
    ELSE IF d.winner = "neither" THEN "none"
    ELSE DiffFile(d.winner)
FinalPatchSourceCodexMut(c, d, files) ==
    IF files["converge/final.patch"] # Absent THEN "converge/final.patch"
    ELSE IF c.implMode = "joint" THEN "implement/joint/final.patch"
    ELSE DiffFile(IF d.winner = "neither" THEN "codex" ELSE d.winner)
FinalPatchSource(c, d, files) ==
    IF files["converge/final.patch"] # Absent THEN "converge/final.patch"
    ELSE IF c.implMode = "joint" THEN "implement/joint/final.patch"
    ELSE IF d.winner = "neither" THEN "none"
    ELSE DiffFile(d.winner)

(* orchestrate: what follows runFinalPhase: applyWinnerPatch with --apply, *)
(* nothing when the user declined the execution                            *)
AfterFinalMut(c, at) == IF c.applyPatch THEN "apply" ELSE "done"
AfterFinalAlwaysMut(c, at) == IF at = "final" THEN "apply" ELSE "done"
AfterFinal(c, at) == IF at = "final" /\ c.applyPatch THEN "apply" ELSE "done"

RunFinalPhase ==
    /\ pc \in {"final", "final_skipped"}
    /\ phases' = Append(phases, "final")
    /\ LET source == FinalPatchSource(cfg, decision, art)
           patch == IF source = "none" THEN Absent ELSE art[source]
           publish == patch # Absent /\ ~IsEmptyPatch(patch)
       IN art' = [art EXCEPT !["final/winner.json"] = decision,
                             !["final/final.patch"] = IF publish THEN patch ELSE @,
                             !["final/summary.md"] = Written]
    /\ pc' = AfterFinal(cfg, pc)
    /\ UNCHANGED <<exec, store, guardrailChecks, cfg, decisionWrites, transcript, decision, debateDirs, picks, round,
                   roles, rootTree, wt, loop, calls>>

-----------------------------------------------------------------------------
(* applyWinnerPatch                                                         *)

BlockedLog(violations) == [log |-> "Guardrails blocked apply.", violations |-> violations]
ApplyLog(text) == [log |-> text, violations |-> <<>>]

(* readText(final/final.patch) ?? "" *)
FinalPatchText(files) ==
    IF files["final/final.patch"] = Absent THEN <<>>
    ELSE PatchText(files["final/final.patch"])

(* `git apply` of a patch in the working tree *)
GitApply(tree, patch) == [f \in Files |-> IF f \in ChangedIn(patch) THEN patch.to[f] ELSE tree[f]]

(* the apply step is refused *)
(* applyWinnerPatch: evaluateGuardrails is called when the function has   *)
(* not returned at once and guardrails are enabled                          *)
GuardrailsEvaluated(c, d) ==
    ~(c.implMode # "joint" /\ d.winner = "neither") /\ c.guardrails.enabled

BlockedMut(c, violations) == c.guardrails.enabled /\ Len(violations) > 1
Blocked(c, violations) == c.guardrails.enabled /\ Len(violations) > 0

ApplyWinnerPatch ==
    /\ pc = "apply"
    /\ guardrailChecks' = IF GuardrailsEvaluated(cfg, decision) THEN guardrailChecks + 1
                          ELSE guardrailChecks
    /\ phases' = Append(phases, "apply")
    /\ pc' = "done"
    /\ IF cfg.implMode # "joint" /\ decision.winner = "neither"
       THEN UNCHANGED <<art, rootTree>>
       ELSE LET source == CanonicalWorktree(cfg, decision)
                violations == GuardrailViolations(cfg, FinalPatchText(art), WorktreeDir(source))
                tests == IF cfg.testsEnabled THEN Written ELSE art["final/tests.log"]
            IN IF Blocked(cfg, violations)
               THEN /\ art' = [art EXCEPT !["final/apply.log"] = BlockedLog(violations)]
                    /\ UNCHANGED rootTree
               ELSE IF cfg.isGit
               THEN IF art["final/final.patch"] = Absent
                    THEN UNCHANGED <<art, rootTree>>
                    ELSE \E ok \in BOOLEAN :
                            /\ rootTree' = IF ok THEN GitApply(rootTree, art["final/final.patch"])
                                           ELSE rootTree
                            /\ art' = [art EXCEPT
                                         !["final/apply.log"] = ApplyLog(IF ok THEN "" ELSE "error"),
                                         !["final/tests.log"] = tests]
               ELSE /\ rootTree' = wt[source]
                    /\ art' = [art EXCEPT
                                 !["final/apply.log"] = ApplyLog("Synced worktree into workspace"),
                                 !["final/tests.log"] = tests]
    /\ UNCHANGED <<exec, store, cfg, decisionWrites, transcript, decision, debateDirs, picks, round,
                   roles, wt, loop, calls>>

FinalActions ==
    \/ InteractiveGate
    \/ RunExecutionPlanPhase
    \/ RunFinalPhase
    \/ ApplyWinnerPatch

(* The decision configurations: every mode, from the configuration file or *)
(* from the command line, every judge, every debate bound up to            *)
(* MaxDebateRounds, with and without --interactive.                         *)
DecideConfigs ==
    {[BaseConfig EXCEPT !.decisionMode = m, !.optDecisionMode = o, !.judgeAgent = j,
                        !.debateRounds = r, !.interactive = i] :
        m \in DecisionModes, o \in DecisionModes \cup {Undef},
        j \in {"claude", Undef},
        r \in {NoneV} \cup {Some(n) : n \in 0..MaxDebateRounds},
        i \in BOOLEAN}

NextDecide == PreludeActions \/ DecisionActions

SpecDecide == InitWith(DecideConfigs, {[f \in Files |-> 1]}) /\ [][NextDecide]_vars

(* Properties of the decision phase (checked under SpecDecide). *)

(* two parsed judgments name the same winner *)
SameWinner(p, q) == WinnerOf(p) \notin {Undef, ""} /\ WinnerOf(p) = WinnerOf(q)
DebateBound == OrElse(cfg.debateRounds, 1)
InitialJudgment == Rationale("Consensus after initial judgment", 0)
NoConvergence == Rationale("Judges did not converge after debate rounds.", 0)

(* C5: in debate mode, when the two initial judgments parse to the same    *)
(* winner, the step that takes the second judgment ends the decision phase *)
(* with that winner and a rationale that refers to the initial judgment,   *)
(* recorded in decide/decision.json, with no debate_round directory and    *)
(* two judge calls; and a decision with that rationale never has a debate  *)
(* directory or a third judge call.                                         *)
C5_InitialConsensusEndsDebate ==
    /\ [][(pc = "debate_initial_claude" /\ SameWinner(picks'["codex"], picks'["claude"]))
            => /\ pc' = "execution_plan"
               /\ decision'.winner = WinnerOf(picks'["codex"])
               /\ decision'.rationale = InitialJudgment
               /\ art'["decide/decision.json"] = decision'
               /\ debateDirs' = {}
               /\ calls'["judge"] = 2]_vars
    /\ [](decision.rationale = InitialJudgment
            => debateDirs = {} /\ calls["judge"] = 2 /\ pc # "debate_round")

C5_Witness ==
    /\ pc = "execution_plan"
    /\ ModeOf(cfg) = "debate"
    /\ DebateBound = MaxDebateRounds
    /\ decision.rationale = InitialJudgment
    /\ decision.winner = "neither"
    /\ SameWinner(picks["codex"], picks["claude"])

(* C6: in debate mode with bound R, the loop goes on to the next round     *)
(* exactly when the two judgments of a round do not name the same winner;  *)
(* a decision reached in round k has k round directories and 2 + 2k judge  *)
(* calls; and when no round agreed the decision is 'neither' with the      *)
(* non-convergence rationale, R round directories and 2 + 2R judge calls.  *)
C6_DebateStopsAtAgreementOrBound ==
    /\ [][(pc \in {"debate_initial_claude", "debate_round_claude"})
            => (SameWinner(picks'["codex"], picks'["claude"]) <=> pc' # "debate_round")]_vars
    /\ []((pc = "execution_plan" /\ ModeOf(cfg) = "debate")
            => /\ decision.rationale = NoConvergence
                    => /\ decision.winner = "neither"
                       /\ ~SameWinner(picks["codex"], picks["claude"])
                       /\ debateDirs = 1..DebateBound
                       /\ calls["judge"] = 2 + 2 * DebateBound
               /\ decision.rationale.kind = "Consensus after debate round"
                    => /\ decision.winner = WinnerOf(picks["codex"])
                       /\ SameWinner(picks["codex"], picks["claude"])
                       /\ decision.rationale.n \in 1..DebateBound
                       /\ debateDirs = 1..decision.rationale.n
                       /\ calls["judge"] = 2 + 2 * decision.rationale.n
               /\ decision.rationale \in {NoConvergence, InitialJudgment}
                    \/ decision.rationale.kind = "Consensus after debate round")

C6_Witness ==
    /\ pc = "execution_plan"
    /\ ModeOf(cfg) = "debate"
    /\ DebateBound = MaxDebateRounds
    /\ decision.rationale = NoConvergence
    /\ debateDirs = 1..MaxDebateRounds
    /\ calls["judge"] = 2 + 2 * MaxDebateRounds

(* C7: the decision of a run, once made, names 'codex', 'claude' or        *)
(* 'neither' as its winner.                                                 *)
C7_WinnerIsAgentOrNeither ==
    decision # NoDecision => decision.winner \in {"codex", "claude", "neither"}

(* C8: in judge mode the judging step is one agent call that always ends   *)
(* the decision phase with a decision written; when the output holds no    *)
(* structured value the winner is 'neither' and the rationale says that    *)
(* the output was not parseable; no second judge call is ever made.         *)
C8_JudgeOneCallNeverFatal ==
    /\ [][pc = "decide_judge"
            => LET judge == decision'.judgeAgent IN
               /\ pc' = "execution_plan"
               /\ calls'["judge"] = 1
               /\ art'["decide/decision.json"] = decision'
               /\ picks'[judge] = JNull
                    => /\ decision'.winner = "neither"
                       /\ decision'.rationale =
                            Rationale("Judge output was not parseable. Defaulting to neither.", 0)]_vars
    /\ [](ModeOf(cfg) = "judge" => calls["judge"] <= 1)

C8_Witness ==
    /\ pc = "execution_plan"
    /\ ModeOf(cfg) = "judge"
    /\ calls["judge"] = 1
    /\ picks[decision.judgeAgent] = JNull
    /\ decision.winner = "neither"

RuleModes == {"prefer-codex", "prefer-claude", "neither"}

(* C21: in a rule-based mode the decision phase makes no agent call, and   *)
(* the decision it writes has the winner the mode names: codex for         *)
(* prefer-codex, claude for prefer-claude, neither for neither.            *)
C21_RuleBasedWinnerFromModeAlone ==
    /\ [][(ModeOf(cfg) \in RuleModes /\ pc \in {"decide", "decide_rule"})
            => calls' = calls]_vars
    /\ []((ModeOf(cfg) \in RuleModes /\ decision # NoDecision)
            => /\ calls["judge"] = 0
               /\ decision.mode = ModeOf(cfg)
               /\ decision.winner = CASE ModeOf(cfg) = "prefer-codex" -> "codex"
                                      [] ModeOf(cfg) = "prefer-claude" -> "claude"
                                      [] ModeOf(cfg) = "neither" -> "neither"
               /\ art["decide/decision.json"] = decision)
    /\ []((ModeOf(cfg) \in RuleModes /\ pc = "execution_plan") => decision # NoDecision)

C21_Witness ==
    /\ pc = "execution_plan"
    /\ ModeOf(cfg) = "prefer-claude"
    /\ cfg.decisionMode = "judge"
    /\ decision.winner = "claude"
    /\ calls["judge"] = 0

-----------------------------------------------------------------------------
(* Runs with a rule-based decision, up to the phase under study.            *)

RuleBasedPrelude ==
    \/ VerifyAgents
    \/ EnsureAnalysisWorktrees
    \/ RunPlanPhase
    \/ RunProposePhase
    \/ RunDecisionPhase
    \/ DecideRule
    \/ RunExecutionPlanPhase

(* The joint implementation loop: every round budget up to MaxJointRounds  *)
(* (and the default), automatic and manual navigator patches, with and     *)
(* without tests in the loop, every swap policy, git and plain directories. *)
JointConfigs ==
    {[BaseConfig EXCEPT !.decisionMode = "prefer-claude", !.implMode = "joint",
                        !.maxRounds = n, !.applyNavigatorPatch = ap,
                        !.testsDuringLoop = t, !.testsEnabled = t,
                        !.swapDriverOnFail = sf, !.swapDriverEachRound = se,
                        !.isGit = g] :
        n \in {NoneV} \cup {Some(k) : k \in 0..MaxJointRounds},
        ap \in {Undef, "manual"}, t \in BOOLEAN, sf \in BOOLEAN, se \in BOOLEAN,
        g \in BOOLEAN}

NextJoint ==
    \/ RuleBasedPrelude
    \/ RunImplementationPhase
    \/ JointDriver
    \/ JointNavigator
    \/ JointFinish

SpecJoint == InitWith(JointConfigs, {[f \in Files |-> 1]}) /\ [][NextJoint]_vars

(* a joint round is running or is about to start *)
JointRoundToCome ==
    \/ pc = "joint_navigator"
    \/ pc = "joint_round" /\ round <= OrElse(cfg.maxRounds, 1)

(* C4: once a round of the joint loop has ended with an empty navigator    *)
(* patch and with tests absent or passing (exit code null or 0), no round  *)
(* is running or about to start, whatever is left of maxRounds.             *)
C4_NoNavigatorChangesIsLastRound ==
    (/\ loop.executed >= 1
     /\ IsEmptyPatch(loop.navigatorPatch)
     /\ loop.lastTestExit \in {NoneV, Some(0)})
    => ~JointRoundToCome

C4_Witness ==
    /\ pc = "joint_finish"
    /\ OrElse(cfg.maxRounds, 1) = MaxJointRounds
    /\ loop.executed = 1
    /\ IsEmptyPatch(loop.navigatorPatch)
    /\ loop.lastTestExit = Some(0)

-----------------------------------------------------------------------------
(* The converge loop after a one-round joint implementation: every round   *)
(* budget from 0 to MaxConvergeRounds (and the default), with and without  *)
(* tests.                                                                   *)
ConvergeConfigs ==
    {[BaseConfig EXCEPT !.decisionMode = "prefer-claude", !.implMode = "joint",
                        !.applyNavigatorPatch = "manual",
                        !.reviewEnabled = r, !.convergeEnabled = TRUE,
                        !.reviewer = rv, !.convergeMaxRounds = n,
                        !.testsEnabled = t] :
        n \in {NoneV} \cup {Some(k) : k \in 0..MaxConvergeRounds}, t \in BOOLEAN,
        r \in BOOLEAN, rv \in {"codex", "both"}}

NextConverge ==
    \/ RuleBasedPrelude
    \/ RunImplementationPhase
    \/ JointDriver
    \/ JointNavigator
    \/ JointFinish
    \/ ReviewActions

SpecConverge ==
    /\ InitWith(ConvergeConfigs, {[f \in Files |-> 1]})
    /\ [][NextConverge]_vars
    /\ WF_vars(NextConverge)

ConvergeLoopRunning == pc \in {"converge_round", "converge_critic", "converge_finish"}

(* C3 as stated: with maxRounds = N configured, at most N rounds run.      *)
C3_AtMostConfiguredRounds ==
    (ConvergeLoopRunning /\ cfg.convergeMaxRounds # NoneV)
    => loop.executed <= cfg.convergeMaxRounds[1]

(* C3, amended: with maxRounds = N configured (1 when not configured), the *)
(* converge loop runs at most max(1, N) rounds, and the converge phase     *)
(* always comes to its end.                                                 *)
C3_ConvergeBoundedAndTerminates ==
    /\ [](ConvergeLoopRunning
            => LET n == OrElse(cfg.convergeMaxRounds, 1)
                   bound == IF n < 1 THEN 1 ELSE n
               IN loop.executed <= bound
                  /\ (pc = "converge_critic" => loop.executed < bound))
    /\ [](pc = "converge" => <>(pc = "final"))

C3_Witness ==
    /\ pc = "converge_round"
    /\ cfg.convergeMaxRounds = Some(MaxConvergeRounds)
    /\ loop.executed = MaxConvergeRounds
    /\ loop.blockers > 0

(* the merged review the converge phase starts from *)
InitialReview == readReviewSummaries(art, Reviewers(cfg))

(* C17: the converge loop is entered, and fixer calls are made, only when  *)
(* review is enabled and the merged initial review has a blocker or the    *)
(* pre-converge test run failed; fixer calls are made nowhere else.         *)
C17_ConvergeLoopOnlyWhenNeeded ==
    /\ [][(pc = "converge" /\ pc' = "converge_round")
            => /\ cfg.reviewEnabled
               /\ Len(InitialReview) > 0 \/ loop'.lastTestExit \notin {NoneV, Some(0)}
               /\ round' = 1
               /\ round' <= ConvergeMaxRounds(cfg)]_vars
    /\ [][calls'["converge"] # calls["converge"]
            => pc = "converge_round" /\ calls'["converge"] = calls["converge"] + 1]_vars
    /\ [][(pc' = "converge_round" /\ pc # "converge_round")
            => pc \in {"converge", "converge_critic"}]_vars
    /\ [](calls["converge"] > 0
            => /\ cfg.reviewEnabled
               /\ Len(InitialReview) > 0 \/ cfg.testsEnabled)

C17_Witness ==
    /\ pc = "converge_critic"
    /\ calls["converge"] = 1
    /\ cfg.reviewer = "both"
    /\ Len(InitialReview) = 2
    /\ ~cfg.testsEnabled

(* the review the critic's output of the latest round parses to *)
CriticReview ==
    LET parsed == parseReviewSummary(art["converge/critic.json"])
    IN IF parsed = NoneV THEN <<>> ELSE parsed[1]

-----------------------------------------------------------------------------
(* The apply step.  Guardrail policies: off; dependency protection with    *)
(* the default list and with a configured list; a line limit; a file       *)
(* limit; a forbidden glob.                                                 *)

DepProtection ==
    [GuardrailsOff EXCEPT !.enabled = TRUE, !.forbidDependencyChanges = TRUE]

GuardrailPolicies ==
    {GuardrailsOff,
     DepProtection,
     [DepProtection EXCEPT !.dependencyFiles = Some({AppTs, <<>>})],
     [GuardrailsOff EXCEPT !.enabled = TRUE, !.maxLinesAdded = Some(0)],
     [GuardrailsOff EXCEPT !.enabled = TRUE, !.maxLinesRemoved = Some(1),
                           !.maxFilesChanged = Some(1)],
     [GuardrailsOff EXCEPT !.enabled = TRUE,
                           !.forbiddenPaths = << <<>>, <<"*", ".json">> >>],
     [DepProtection EXCEPT !.maxFilesChanged = Some(0), !.maxLinesAdded = Some(0),
                           !.maxLinesRemoved = Some(0),
                           !.forbiddenPaths = << <<"*", ".json">> >>]}

(* Runs with --apply: a one-round joint run under every policy; a parallel *)
(* run with and without a winner; a joint run followed by the converge     *)
(* loop; each in a git repository and in a plain directory.                 *)
ApplyConfigs ==
    LET joint == [BaseConfig EXCEPT !.decisionMode = "prefer-claude", !.implMode = "joint",
                                    !.applyNavigatorPatch = "manual", !.applyPatch = TRUE]
    IN {[joint EXCEPT !.guardrails = g, !.isGit = git, !.testsEnabled = t] :
            g \in GuardrailPolicies, git \in BOOLEAN, t \in BOOLEAN}
       \cup {[joint EXCEPT !.implMode = "parallel", !.decisionMode = m,
                           !.guardrails = DepProtection, !.isGit = git] :
            m \in {"prefer-codex", "neither"}, git \in BOOLEAN}
       \cup {[joint EXCEPT !.reviewEnabled = TRUE, !.convergeEnabled = TRUE,
                           !.reviewer = "codex", !.guardrails = DepProtection,
                           !.isGit = git] : git \in BOOLEAN}
       \cup {[joint EXCEPT !.implMode = "parallel", !.decisionMode = "neither",
                           !.reviewEnabled = TRUE, !.convergeEnabled = TRUE,
                           !.testsEnabled = TRUE, !.isGit = git] : git \in BOOLEAN}

NextApply ==
    \/ RuleBasedPrelude
    \/ ImplementationActions
    \/ ReviewActions
    \/ RunFinalPhase
    \/ ApplyWinnerPatch

SpecApply == InitWith(ApplyConfigs, InitTrees) /\ [][NextApply]_vars

IsBlockedLog(log) == log # Absent /\ log.log = "Guardrails blocked apply."
ImplementationPatches ==
    {"implement/joint/final.patch", "implement/codex/diff.patch",
     "implement/claude/diff.patch"}
DependencyProtectionOn ==
    cfg.applyPatch /\ cfg.guardrails.enabled /\ cfg.guardrails.forbidDependencyChanges
Protected(f) == f \in OrElse(cfg.guardrails.dependencyFiles, DefaultDependencyFiles)

C2_ViolationsBlockApplyOnly ==
    [][(/\ pc = "apply"
        /\ cfg.guardrails.enabled
        /\ GuardrailViolations(cfg, FinalPatchText(art),
                               WorktreeDir(CanonicalWorktree(cfg, decision))) # <<>>)
       => /\ rootTree' = rootTree
          /\ wt' = wt
          /\ IsBlockedLog(art'["final/apply.log"])
          /\ \A a \in ArtifactNames \ {"final/apply.log"} : art'[a] = art[a]
          /\ art'["final/final.patch"] # Absent
          /\ art'["final/summary.md"] # Absent
          /\ art'["final/winner.json"] # Absent]_vars

C2_Witness ==
    /\ pc = "done"
    /\ cfg.testsEnabled
    /\ ~cfg.guardrails.forbidDependencyChanges
    /\ IsBlockedLog(art["final/apply.log"])
    /\ art["final/tests.log"] = Absent
    /\ art["final/final.patch"] # Absent
    /\ rootTree # wt["driver"]

-----------------------------------------------------------------------------
(* The whole run. *)

Next ==
    \/ PreludeActions
    \/ DecisionActions
    \/ FinalActions
    \/ ImplementationActions
    \/ ReviewActions


(* Runs of every shape: a debate behind the approval gate of --interactive *)
(* (joint, two rounds, driver swap), asked on a terminal and not; a judge  *)
(* and a parallel implementation in a git repository, with tests and       *)
(* --apply; a rule-based decision with review, converge and a guarded      *)
(* --apply in a plain directory.                                            *)
RunConfigs ==
    {[BaseConfig EXCEPT !.decisionMode = "debate", !.interactive = TRUE, !.isTTY = tty,
                        !.debateRounds = Some(1), !.applyPatch = TRUE] :
        tty \in BOOLEAN}
    \cup {[BaseConfig EXCEPT !.decisionMode = "judge", !.implMode = "parallel",
                             !.isGit = TRUE, !.testsEnabled = TRUE, !.applyPatch = TRUE]}
    \cup {[BaseConfig EXCEPT !.decisionMode = "prefer-claude", !.implMode = "joint",
                             !.reviewEnabled = TRUE, !.convergeEnabled = TRUE,
                             !.reviewer = "codex", !.applyPatch = TRUE,
                             !.guardrails = DepProtection]}

Spec == InitWith(RunConfigs, InitTrees) /\ [][Next]_vars

Started == {phases[i] : i \in 1..Len(phases)}
DecisionFile == art["decide/decision.json"]
IsOverrideNote(event, driver) ==
    /\ event.kind = "note"
    /\ event.phase = "interactive"
    /\ event.content = <<"Execution driver overridden to", driver>>

(* C9: decide/decision.json is written at most once in a run, exactly     *)
(* once when the decision phase is over, and never changes afterwards; it  *)
(* carries the mode, winner and rationale of the run's decision; a driver  *)
(* override appends a note to the transcript and changes nothing of the    *)
(* decision but its executionDriver, and nothing in the run directory.     *)
C9_DecisionWrittenOnceOverrideApart ==
    /\ [](/\ decisionWrites <= 1
          /\ (decisionWrites = 1) <=> (decision # NoDecision)
          /\ "execution_plan" \in Started => decisionWrites = 1
          /\ decision # NoDecision
               => /\ DecisionFile.mode = decision.mode
                  /\ DecisionFile.winner = decision.winner
                  /\ DecisionFile.rationale = decision.rationale
                  /\ DecisionFile.executionDriver = Undef)
    /\ [][DecisionFile # Absent => art'["decide/decision.json"] = DecisionFile]_vars
    /\ [][decision'.executionDriver # decision.executionDriver
            => /\ decision' = [decision EXCEPT !.executionDriver = decision'.executionDriver]
               /\ art' = art
               /\ Len(transcript') > Len(transcript)
               /\ SubSeq(transcript', 1, Len(transcript)) = transcript
               /\ IsOverrideNote(transcript'[Len(transcript')],
                                 decision'.executionDriver)]_vars

C9_Witness ==
    /\ pc = "done"
    /\ decisionWrites = 1
    /\ decision.winner = "claude"
    /\ decision.executionDriver = "codex"
    /\ DecisionFile.winner = "claude"
    /\ DecisionFile.executionDriver = Undef
    /\ \E i \in 1..Len(transcript) : IsOverrideNote(transcript[i], "codex")

PhaseOrder ==
    <<"plan", "propose", "decide", "execution_plan", "implement", "review", "converge",
      "final", "apply">>
IsPrefix(p, q) == Len(p) <= Len(q) /\ SubSeq(q, 1, Len(p)) = p
JointDone == art["implement/joint/final.patch"] # Absent
                /\ art["implement/joint/meta.json"] # Absent
ParallelDone == art["implement/codex/diff.patch"] # Absent
                   /\ art["implement/claude/diff.patch"] # Absent

(* C10: the phases a run has entered are, in this order and each at most   *)
(* once, plan, propose, decide, execution plan, implement, review,         *)
(* converge, final and (only with --apply) apply -- or, when the user      *)
(* declined the execution, the first four and final; and when a phase has  *)
(* been entered the artifacts of the one before it are written.            *)
C10_PhasesInFixedOrder ==
    /\ \/ IsPrefix(phases, PhaseOrder)
       \/ cfg.interactive /\ phases = SubSeq(PhaseOrder, 1, 4) \o <<"final">>
    /\ "apply" \in Started => cfg.applyPatch
    /\ "propose" \in Started => art["plan"] = Written
    /\ "decide" \in Started => art["propose"] = Written
    /\ "execution_plan" \in Started => DecisionFile # Absent /\ pc # "decide"
    /\ "implement" \in Started => art["execution_plan/final.md"] = Written
    /\ "review" \in Started => IF cfg.implMode = "joint" THEN JointDone ELSE ParallelDone
    /\ "converge" \in Started => pc # "review"
    /\ "final" \in Started
         => /\ pc \notin {"converge", "converge_round", "converge_critic", "converge_finish"}
            /\ calls["converge"] > 0 => art["converge/final.patch"] # Absent
    /\ "apply" \in Started
         => art["final/winner.json"] # Absent /\ art["final/summary.md"] = Written

C10_Witness ==
    /\ pc = "done"
    /\ phases = PhaseOrder
    /\ calls["converge"] > 0


(* Runs with a joint implementation of two rounds and automatic navigator  *)
(* patches, through review, converge (one and two rounds) and the final     *)
(* phase, in a git repository and in a plain directory; every awaited step  *)
(* returns.                                                                  *)
JointRunConfigs ==
    {[BaseConfig EXCEPT !.decisionMode = "prefer-claude", !.implMode = "joint",
                        !.maxRounds = Some(2), !.applyNavigatorPatch = ap,
                        !.reviewEnabled = r, !.convergeEnabled = r, !.reviewer = "codex",
                        !.convergeMaxRounds = n, !.isGit = g] :
        ap \in {Undef, "auto"}, r \in BOOLEAN, n \in {NoneV, Some(2)}, g \in BOOLEAN}

NextJointRun == NextJoint \/ ReviewActions \/ RunFinalPhase

SpecJointRun ==
    /\ InitWith(JointRunConfigs, {[f \in Files |-> 1]})
    /\ [][NextJointRun]_vars
    /\ WF_vars(NextJointRun)

FailedToApplyNote == Note("implement", <<"Stopping early: navigator patch failed to apply.">>)

(* the round that has just run tried to apply a navigator patch and failed *)
ApplyFailed ==
    /\ loop.executed >= 1
    /\ cfg.applyNavigatorPatch \in {Undef, "auto"}
    /\ ~IsEmptyPatch(loop.navigatorPatch)
    /\ ~loop.lastApplyOk

(* the joint loop of this run ended on a navigator patch that did not apply *)
EndedOnFailedApply ==
    /\ cfg.applyNavigatorPatch \in {Undef, "auto"}
    /\ \E i \in 1..Len(transcript) : transcript[i] = FailedToApplyNote

BoundExhausted == pc = "converge_round" /\ round > ConvergeMaxRounds(cfg)

(* C19: when the converge loop runs out of rounds, its last round did not  *)
(* meet the stop condition; the phase ends all the same, with the diff     *)
(* taken in that round as converge/final.patch and that round's critic     *)
(* review as the final review of converge/meta.json; the run goes on to    *)
(* its end, and the final patch it publishes is that diff.                  *)
C19_ExhaustedBoundKeepsLastRound ==
    /\ [](BoundExhausted
            => /\ loop.executed = ConvergeMaxRounds(cfg)
               /\ ~ConvergeComplete(loop.finalReview, loop.lastTestExit)
               /\ art["converge/review.json"] = [blockers |-> loop.finalReview])
    /\ [][BoundExhausted
            => /\ pc' = "final"
               /\ art'["converge/final.patch"] = loop.currentDiff
               /\ art'["converge/meta.json"] = [final |-> art["converge/review.json"].blockers]]_vars
    /\ [][(pc = "converge_critic" /\ BoundExhausted')
            => loop'.currentDiff = loop.currentDiff]_vars
    /\ [](BoundExhausted => <>(pc = "done"))
    /\ []((pc = "done" /\ art["converge/final.patch"] # Absent)
            => FinalPatchText(art) = PatchText(art["converge/final.patch"]))

C19_Witness ==
    /\ pc = "done"
    /\ cfg.convergeMaxRounds = Some(2)
    /\ calls["converge"] = 2
    /\ art["converge/meta.json"] # Absent
    /\ art["converge/meta.json"].final = <<"s">>
    /\ ~IsEmptyPatch(art["converge/final.patch"])
    /\ art["final/final.patch"] = art["converge/final.patch"]
    /\ art["final/final.patch"] # art["implement/joint/final.patch"]

-----------------------------------------------------------------------------
(* The call layer: runAgentPhase and runCommand.  Every step of the control *)
(* thread above stands for the agent calls it awaits and for what it does   *)
(* with their output; here the calls of a step are spawned, run and resolve *)
(* one by one before the step is taken.                                     *)

ExitCodes == {0, 1}                  \* exit codes of an agent command

Call(phase, agent) == [phase |-> phase, agent |-> agent]

(* the runAgentPhase calls of the step the control thread is at, in the    *)
(* order of the source                                                      *)
StepCalls ==
    CASE pc \in {"plan", "propose"} -> <<Call(pc, "codex"), Call(pc, "claude")>>
      [] pc = "decide_judge" ->
            <<Call("judge", IF cfg.judgeAgent # Undef THEN cfg.judgeAgent ELSE "codex")>>
      [] pc \in {"debate_initial_codex", "debate_round_codex"} -> <<Call("judge", "codex")>>
      [] pc \in {"debate_initial_claude", "debate_round_claude"} -> <<Call("judge", "claude")>>
      [] pc = "execution_plan" ->
            IF Planner(decision) \in AgentNames
            THEN <<Call("execution-plan", Planner(decision)),
                   Call("execution-plan-review", otherAgent(Planner(decision))),
                   Call("execution-plan-final", Planner(decision))>>
            ELSE <<>>
      [] pc = "parallel_codex" -> <<Call("implement", "codex")>>
      [] pc = "parallel_claude" -> <<Call("implement", "claude")>>
      [] pc = "joint_round" ->
            IF round <= MaxRoundsOf(cfg) THEN <<Call("implement", roles.driver)>> ELSE <<>>
      [] pc = "joint_navigator" -> <<Call("collab", roles.navigator)>>
      [] pc = "review" ->
            IF ReviewRuns(cfg, decision, art)
            THEN [i \in 1..Len(Reviewers(cfg)) |-> Call("review", Reviewers(cfg)[i])]
            ELSE <<>>
      [] pc = "converge_round" ->
            IF round <= ConvergeMaxRounds(cfg) THEN <<Call("converge", roles.fixer)>> ELSE <<>>
      [] pc = "converge_critic" -> <<Call("review", roles.critic)>>
      [] OTHER -> <<>>

(* the cwd of a runAgentPhase call of the step the control thread is at:   *)
(* analysisWorktrees[agent] ?? process.cwd() in the phases before the      *)
(* implementation, the worktree of the agent, of the driver or of the      *)
(* round's navigator in the implementation, reviewCwd in the review and    *)
(* canonicalWorktree in the converge loop                                   *)
NavigatorWorktree(n) == WorktreeDir("navigator_round_" \o ToString(n))
ReviewCwd(c, d) ==
    IF c.implMode = "joint" THEN WorktreeDir("driver")
    ELSE IF d.winner = "neither" THEN RootDir
    ELSE WorktreeDir(d.winner)
StepCwd(call) ==
    CASE pc \in {"parallel_codex", "parallel_claude"} -> WorktreeDir(call.agent)
      [] pc = "joint_round" -> WorktreeDir("driver")
      [] pc = "joint_navigator" -> NavigatorWorktree(round)
      [] pc = "review" -> ReviewCwd(cfg, decision)
      [] pc \in {"converge_round", "converge_critic"} ->
            WorktreeDir(CanonicalWorktree(cfg, decision))
      [] OTHER -> OrElse(ensureAnalysisWorktrees(cfg)[call.agent], RootDir)

(* calls of the current step that have been started *)
TotalCalls ==
    calls["plan"] + calls["propose"] + calls["judge"] + calls["execution-plan"]
    + calls["implement"] + calls["collab"] + calls["review"] + calls["converge"]
Made == Len(callLog) - TotalCalls

(* orchestrate: judgeTimeoutMs for the decision phase, agentTimeoutMs else *)
TimeoutOf(c, phase) ==
    IF phase = "judge" /\ c.judgeTimeoutMs # NoneV THEN c.judgeTimeoutMs
    ELSE c.agentTimeoutMs

(* runCommand: if (options.timeoutMs && options.timeoutMs > 0) setTimeout  *)
TimerArmed(timeoutMs) == timeoutMs # NoneV /\ timeoutMs[1] > 0

(* runCommand: the child just spawned.  state is "running" or "exited"     *)
(* (the process has ended, 'close' is still to come); code is the exit     *)
(* code, <<>> while running and for a process ended by a signal.           *)
Child(call, timeoutMs, cwd) ==
    [phase |-> call.phase, agent |-> call.agent, cwd |-> cwd, state |-> "running", code |-> NoneV,
     timer |-> IF TimerArmed(timeoutMs) THEN "armed" ELSE "none", timedOut |-> FALSE]

(* `await runCommand(...)`: the control thread goes on only when the       *)
(* promise of the call it made has settled                                  *)
CanSpawnMut(ps) == TRUE
CanSpawn(ps) == ps = {}

(* runCommand, on 'close': exitCode: code ?? (timedOut ? 124 : 0) *)
ExitCodeOf(code, timedOut) ==
    IF code # NoneV THEN code[1] ELSE IF timedOut THEN 124 ELSE 0

(* runAgentPhase: spawn the next call of the step *)
SpawnAgent ==
    /\ Made < Len(StepCalls)
    /\ CanSpawn(procs)
    /\ LET call == StepCalls[Made + 1]
       IN /\ procs' = procs \cup {Child(call, TimeoutOf(cfg, call.phase), StepCwd(call))}
          /\ callLog' = Append(callLog, call)
    /\ lastResult' = NoneV
    /\ UNCHANGED <<store, guardrailChecks, cfg, pc, phases, art, decisionWrites, transcript, decision, debateDirs,
                   picks, round, roles, rootTree, wt, loop, calls>>

(* the child ends by itself, with an exit code or by a signal *)
ChildExit ==
    /\ \E p \in procs, code \in {Some(e) : e \in ExitCodes} \cup {NoneV} :
          /\ p.state = "running"
          /\ procs' = (procs \ {p}) \cup {[p EXCEPT !.state = "exited", !.code = code]}
    /\ UNCHANGED <<store, guardrailChecks, cfg, pc, phases, art, decisionWrites, transcript, decision, debateDirs,
                   picks, round, roles, rootTree, wt, loop, calls, callLog, lastResult>>

(* the timer callback: timedOut = true; child.kill("SIGKILL"), which ends  *)
(* a running child and does nothing to one that has ended                   *)
TimerFires ==
    /\ \E p \in procs :
          /\ p.timer = "armed"
          /\ procs' = (procs \ {p}) \cup
                {[p EXCEPT !.timer = "fired", !.timedOut = TRUE, !.state = "exited"]}
    /\ UNCHANGED <<store, guardrailChecks, cfg, pc, phases, art, decisionWrites, transcript, decision, debateDirs,
                   picks, round, roles, rootTree, wt, loop, calls, callLog, lastResult>>

(* child.on("error"): the promise is rejected; nothing in orchestrate()    *)
(* catches the exception                                                    *)
ChildError ==
    /\ \E p \in procs :
          /\ p.state = "running"
          /\ procs' = procs \ {p}
    /\ pc' = "crashed"
    /\ UNCHANGED <<store, guardrailChecks, cfg, phases, art, decisionWrites, transcript, decision, debateDirs,
                   picks, round, roles, rootTree, wt, loop, calls, callLog, lastResult>>

(* child.on("close"): the timer is cleared and the promise resolves *)
ChildClose ==
    /\ \E p \in procs :
          /\ p.state = "exited"
          /\ procs' = procs \ {p}
          /\ lastResult' = Some(RunResult(ExitCodeOf(p.code, p.timedOut), p.timedOut))
    /\ UNCHANGED <<store, guardrailChecks, cfg, pc, phases, art, decisionWrites, transcript, decision, debateDirs,
                   picks, round, roles, rootTree, wt, loop, calls, callLog>>

CallActions ==
    \/ SpawnAgent
    \/ ChildExit
    \/ TimerFires
    \/ ChildError
    \/ ChildClose

(* every call of the step has resolved: the thread takes the step, whatever *)
(* the results were                                                         *)
SettledMut == procs = {} /\ Made = Len(StepCalls) /\ lastResult \in {NoneV, Some(RunResult(0, FALSE))}
Settled == procs = {} /\ Made = Len(StepCalls)

ThreadStep == Settled /\ Next

(* Runs at the grain of single calls: a judge, a parallel implementation   *)
(* and a review with a time limit on every call; a rule-based decision and *)
(* a joint implementation with no time limit (and with a limit of 0, which *)
(* arms no timer).                                                          *)
CallConfigs ==
    {[BaseConfig EXCEPT !.decisionMode = "judge", !.judgeAgent = "claude",
                        !.reviewEnabled = TRUE, !.reviewer = "claude",
                        !.convergeEnabled = TRUE, !.agentTimeoutMs = Some(1)]}
    \cup {[BaseConfig EXCEPT !.decisionMode = "prefer-claude", !.implMode = "joint",
                             !.applyNavigatorPatch = "manual",
                             !.agentTimeoutMs = t] : t \in {NoneV, Some(0)}}

NextCalls == CallActions \/ ThreadStep

(* every spawned process ends and the event loop goes on delivering events *)
SpecCalls ==
    /\ InitWith(CallConfigs, {[f \in Files |-> 1]})
    /\ [][NextCalls]_vars
    /\ WF_vars(NextCalls)

(* C11: at any moment at most one agent process is in flight, and it is    *)
(* the process of the call started last; the control thread takes no step  *)
(* (so no worktree, artifact or decision changes) while one is in flight.  *)
C11_OneAgentProcessAtATime ==
    /\ [](/\ Cardinality(procs) <= 1
          /\ \A p \in procs :
                /\ callLog # <<>>
                /\ callLog[Len(callLog)] = Call(p.phase, p.agent))
    /\ [][procs # {} => <<pc, wt, art, rootTree, decision>>' = <<pc, wt, art, rootTree, decision>>
                         \/ pc' = "crashed"]_vars

C11_Witness ==
    /\ pc = "parallel_claude"
    /\ wt["codex"] # NoTree
    /\ \E p \in procs : p.agent = "claude" /\ p.phase = "implement" /\ p.state = "running"

(* C12: a call whose timeout timer fired resolves with a non-zero exit     *)
(* code and with timedOut set.                                              *)
C12_TimeoutGivesNonZeroExit ==
    (lastResult # NoneV /\ lastResult[1].timedOut) => lastResult[1].exitCode # 0

(* a call has resolved with a non-zero exit code or after its timer fired *)
FailedResult ==
    lastResult # NoneV /\ (lastResult[1].exitCode # 0 \/ lastResult[1].timedOut)
ValidWinner == decision.winner \in {"codex", "claude", "neither"}

(* C13: when an agent call resolves with a non-zero exit code or after a   *)
(* timeout, the control thread stays in the step it is in, with the result *)
(* in hand, and the run goes on to its end (the final phase has run); a    *)
(* run only ever aborts after verification for a process that could not be *)
(* spawned or for a decision whose winner names no agent.                   *)
C13_FailedCallDoesNotAbort ==
    /\ [][(lastResult' # lastResult /\ FailedResult')
            => pc' = pc /\ callLog' = callLog /\ calls' = calls]_vars
    /\ [][(pc' = "crashed" /\ pc # "crashed")
            => \/ \E p \in procs : p.state = "running" /\ p \notin procs'
               \/ pc = "execution_plan" /\ ~ValidWinner]_vars
    /\ [](FailedResult
            => <>(\/ pc = "done" /\ art["final/summary.md"] = Written
                  \/ pc = "crashed"))

C13_Witness ==
    /\ pc = "done"
    /\ FailedResult
    /\ lastResult[1].exitCode = 124
    /\ art["final/summary.md"] = Written
    /\ calls["converge"] > 0

ExecutionPlanCalls ==
    SelectSeq(callLog, LAMBDA c : c.phase \in {"execution-plan", "execution-plan-review",
                                               "execution-plan-final"})

(* C20: the agent calls of the execution-plan phase are, in this order,    *)
(* the draft by the planner (the winner, codex when the winner is          *)
(* 'neither'), the review by the other agent and the finalization by the   *)
(* planner: at every moment a prefix of these three, all three once the    *)
(* final plan is written, and never a fourth.                               *)
C20_ExecutionPlanIsThreeCalls ==
    LET planner == IF decision.winner = "neither" THEN "codex" ELSE decision.winner
        protocol == <<Call("execution-plan", planner),
                      Call("execution-plan-review", otherAgent(planner)),
                      Call("execution-plan-final", planner)>>
    IN /\ IsPrefix(ExecutionPlanCalls, protocol)
       /\ art["execution_plan/final.md"] = Written => ExecutionPlanCalls = protocol
       /\ "implement" \in Started => ExecutionPlanCalls = protocol
       /\ ExecutionPlanCalls # <<>> => "execution_plan" \notin Started \/ Len(ExecutionPlanCalls) = 3

C20_Witness ==
    /\ pc = "done"
    /\ decision.winner = "claude"
    /\ ExecutionPlanCalls = <<Call("execution-plan", "claude"),
                              Call("execution-plan-review", "codex"),
                              Call("execution-plan-final", "claude")>>

-----------------------------------------------------------------------------
(* Agent verification: every combination of a missing binary, version      *)
(* arguments (default, none, given), minimum version and reported version  *)
(* for codex, with claude installed or missing.                             *)

VersionOutputs == {<<>>, <<1, 5>>, <<1, 4, 9>>, <<2, 0, 1>>}
MinVersions == {NoneV, Some(<<2>>), Some(<<1, 5, 0>>)}
VersionArgs == {NoneV, Some(<<>>), Some(<<"-V">>)}
AgentSetups ==
    [found : BOOLEAN, versionArgs : VersionArgs, minVersion : MinVersions,
     versionOutput : VersionOutputs]
VerifyConfigs ==
    {[BaseConfig EXCEPT !.agents = [codex |-> a, claude |-> [Installed EXCEPT !.found = f]]] :
        a \in AgentSetups, f \in BOOLEAN}
SpecVerify ==
    /\ InitWith(VerifyConfigs, {[f \in Files |-> 1]})
    /\ [][PreludeActions]_vars

(* the installed binary's version is below the configured minimum *)
BelowMinimum(agentConfig) ==
    /\ agentConfig.found
    /\ agentConfig.minVersion # NoneV
    /\ parseVersion(agentConfig.versionOutput) # NoneV
    /\ compareVersions(parseVersion(agentConfig.versionOutput)[1], agentConfig.minVersion[1]) < 0

-----------------------------------------------------------------------------
(* Acquiring a worktree: the destination directory is absent (NoTree) or   *)
(* already there with some content, the project is a git repository or a   *)
(* plain directory.                                                         *)

Acquired(tree) == [error |-> FALSE, tree |-> tree]
Failed(tree) == [error |-> TRUE, tree |-> tree]

(* git.ts ensureWorktree: throws when the path exists or `git worktree add` *)
(* fails, else the worktree is a checkout of HEAD                           *)
ensureWorktree(root, dest) ==
    IF dest # NoTree THEN {Failed(dest)}
    ELSE {Acquired(root), Failed(dest)}

(* workspace.ts copyWorkspace: ensureDir(destDir), then every entry of the *)
(* source is copied over the destination (force); what the destination    *)
(* already held and the source lacks stays                                  *)
copyWorkspace(source, dest) ==
    {Acquired([f \in Files |-> IF source[f] # 0 THEN source[f]
                               ELSE IF dest = NoTree THEN 0 ELSE dest[f]])}

(* parallel strategy: the agent's worktree *)
AcquireAgentWorktree ==
    /\ pc = "acquire_agent"
    /\ \E outcome \in (IF cfg.isGit THEN ensureWorktree(rootTree, wt["codex"])
                       ELSE copyWorkspace(rootTree, wt["codex"])) :
          /\ wt' = [wt EXCEPT !["codex"] = outcome.tree]
          /\ pc' = IF outcome.error THEN "crashed" ELSE "acquired"
    /\ UNCHANGED <<exec, store, guardrailChecks, cfg, phases, art, decisionWrites, transcript, decision, debateDirs,
                   picks, round, roles, rootTree, loop, calls>>

(* joint strategy: the driver worktree, acquired only when it is not there *)
AcquireDriverWorktree ==
    /\ pc = "acquire_driver"
    /\ \E outcome \in (IF wt["driver"] # NoTree THEN {Acquired(wt["driver"])}
                       ELSE IF cfg.isGit THEN ensureWorktree(rootTree, wt["driver"])
                       ELSE copyWorkspace(rootTree, wt["driver"])) :
          /\ wt' = [wt EXCEPT !["driver"] = outcome.tree]
          /\ pc' = IF outcome.error THEN "crashed" ELSE "acquired"
    /\ UNCHANGED <<exec, store, guardrailChecks, cfg, phases, art, decisionWrites, transcript, decision, debateDirs,
                   picks, round, roles, rootTree, loop, calls>>

Destination == IF pc = "acquire_driver" THEN wt["driver"] ELSE wt["codex"]

InitAcquire ==
    /\ cfg \in {[BaseConfig EXCEPT !.implMode = m, !.isGit = g] :
                   m \in {"parallel", "joint"}, g \in BOOLEAN}
    /\ pc = IF cfg.implMode = "joint" THEN "acquire_driver" ELSE "acquire_agent"
    /\ rootTree \in Trees
    /\ \E dest \in Trees \cup {NoTree} :
          wt = [n \in WorktreeNames |->
                   IF n = (IF cfg.implMode = "joint" THEN "driver" ELSE "codex")
                   THEN dest ELSE NoTree]
    /\ phases = <<>>
    /\ art = [a \in ArtifactNames |-> Absent]
    /\ decisionWrites = 0
    /\ transcript = <<>>
    /\ decision = NoDecision
    /\ debateDirs = {}
    /\ picks = NoPicks
    /\ round = 0
    /\ roles = NoRoles
    /\ loop = NoLocals
    /\ calls = [p \in PhaseNames |-> 0]
    /\ procs = {}
    /\ callLog = <<>>
    /\ lastResult = NoneV
    /\ invocations = 1
    /\ guardrailChecks = 0
    /\ sessions = OpenedSessions([s \in SessionIds |-> Absent], SessionIdOf(cfg, 1), cfg.task)
    /\ context = RunContext(SessionIdOf(cfg, 1), cfg.task)

NextAcquire == AcquireAgentWorktree \/ AcquireDriverWorktree

SpecAcquire == InitAcquire /\ [][NextAcquire]_vars

(* C16: acquiring a worktree at a destination that already exists fails    *)
(* with an error, for a git repository and for a plain directory alike.    *)
C16_ExistingDestinationFails ==
    [][(pc \in {"acquire_agent", "acquire_driver"} /\ Destination # NoTree)
         => pc' = "crashed"]_vars

-----------------------------------------------------------------------------
(* Where the agent processes run: a judge and a debate decision with a     *)
(* parallel implementation, and a rule-based decision with a joint         *)
(* implementation of up to MaxJointRounds rounds, each with and without    *)
(* isolated analysis workspaces; one run has a time limit on its calls.    *)
CwdConfigs ==
    {[BaseConfig EXCEPT !.decisionMode = m, !.debateRounds = Some(1),
                        !.isolateWorkspaces = i] :
        m \in {"judge", "debate"}, i \in BOOLEAN}
    \cup {[BaseConfig EXCEPT !.decisionMode = "prefer-claude", !.implMode = "joint",
                             !.maxRounds = n, !.swapDriverEachRound = TRUE,
                             !.isolateWorkspaces = i] :
            n \in {NoneV} \cup {Some(k) : k \in 0..MaxJointRounds}, i \in BOOLEAN}
    \cup {[BaseConfig EXCEPT !.agentTimeoutMs = Some(1), !.isolateWorkspaces = TRUE]}

SpecCwd == InitWith(CwdConfigs, {[f \in Files |-> 1]}) /\ [][NextCalls]_vars

AnalysisPhases ==
    {"plan", "propose", "judge", "execution-plan", "execution-plan-review",
     "execution-plan-final"}

(* C25: with context.isolateWorkspaces on, every agent process of the      *)
(* plan, propose, decision (judge or debate) and execution-plan phases is  *)
(* started with cwd = the analysis workspace of the agent it runs, which   *)
(* is not the user's working tree.                                          *)
C25_AnalysisCallsRunInAnalysisWorkspace ==
    [][\A p \in procs' \ procs :
          (cfg.isolateWorkspaces /\ p.phase \in AnalysisPhases)
              => p.cwd = AnalysisDir(p.agent) /\ p.cwd # RootDir]_vars

C25_Witness ==
    /\ cfg.isolateWorkspaces
    /\ ModeOf(cfg) = "debate"
    /\ \E i \in 1..Len(callLog) : callLog[i] = Call("judge", "claude")
    /\ \E p \in procs : p.phase = "execution-plan-review" /\ p.cwd = AnalysisDir(p.agent)

-----------------------------------------------------------------------------
(* C23: when the joint implementation has ended, its meta.json holds the   *)
(* roles as they are at the end and a round count equal to the number of   *)
(* rounds that were executed.                                               *)
C23_RecordedRoundsAreExecuted ==
    (pc = "review" /\ art["implement/joint/meta.json"] # Absent)
        => /\ art["implement/joint/meta.json"].driver = roles.driver
           /\ art["implement/joint/meta.json"].navigator = roles.navigator
           /\ art["implement/joint/meta.json"].rounds = loop.executed

-----------------------------------------------------------------------------
(* C24: for the final patch, made by git diff or by diffDirs between the   *)
(* working tree and a worktree under it, extractChangedFilesFromDiff       *)
(* returns exactly the paths of the files that differ: no other entry,     *)
(* and none left out, added and deleted files included.                     *)
C24_ExtractedFilesAreTheChangedFiles ==
    (pc = "apply" /\ art["final/final.patch"] # Absent)
        => extractChangedFilesFromDiff(FinalPatchText(art), RootDir,
                IF cfg.isGit THEN RootDir
                ELSE WorktreeDir(CanonicalWorktree(cfg, decision)))
             = ChangedIn(art["final/final.patch"])

-----------------------------------------------------------------------------
(* the step exchanges driver and navigator; the rule of the swap *)
RolesSwapped == roles' = [roles EXCEPT !.driver = roles.navigator, !.navigator = roles.driver]
C26_SwapRule ==
    [][pc = "joint_navigator"
        => /\ roles' = roles \/ RolesSwapped
           /\ pc' = "joint_finish" => roles' = roles
           /\ pc' = "joint_round"
                => (RolesSwapped
                      <=> IF cfg.swapDriverOnFail /\ TestsFailing(loop'.lastTestExit) THEN TRUE
                          ELSE cfg.swapDriverEachRound /\ round < MaxRoundsOf(cfg))]_vars
(* C26: a joint round that stops the loop swaps nothing; one that does not *)
(* swaps driver and navigator exactly when swapDriverOnFail is set and the *)
(* round's tests failed, or else swapDriverEachRound is set and rounds     *)
(* remain; a swap exchanges the two roles once, and it is followed by a    *)
(* round.                                                                   *)
C26_SwapPreparesARoundThatFollows ==
    /\ C26_SwapRule
    /\ [][(pc = "joint_navigator" /\ RolesSwapped) => round' <= MaxRoundsOf(cfg)]_vars

-----------------------------------------------------------------------------
(* the fixer the converge loop starts with; a converge round is running *)
InitialFixer ==
    IF cfg.implMode = "joint" THEN art["implement/joint/meta.json"].driver
    ELSE decision.winner
InConvergeRound ==
    pc = "converge_critic" \/ (pc = "converge_round" /\ round <= ConvergeMaxRounds(cfg))
(* C27: in the converge loop fixer and critic are the two different        *)
(* agents; the fixer of round k is the fixer the loop started with when k  *)
(* is odd and the other agent when k is even; the roles are exchanged      *)
(* exactly after a round that does not stop the loop and is not the last,  *)
(* and stay as they are otherwise.                                          *)
C27_FixerAlternates ==
    /\ [](InConvergeRound
            => /\ roles.fixer \in AgentNames
               /\ roles.critic = otherAgent(roles.fixer)
               /\ roles.critic # roles.fixer
               /\ roles.fixer = IF round % 2 = 1 THEN InitialFixer
                                ELSE otherAgent(InitialFixer))
    /\ [][pc = "converge_critic"
            => IF pc' = "converge_round" /\ round < ConvergeMaxRounds(cfg)
               THEN roles' = [roles EXCEPT !.fixer = roles.critic, !.critic = roles.fixer]
               ELSE roles' = roles]_vars

C27_Witness ==
    /\ pc = "converge_critic"
    /\ round = 2
    /\ roles.fixer = otherAgent(InitialFixer)
    /\ roles.critic = InitialFixer

-----------------------------------------------------------------------------
(* C28: a joint implementation with maxRounds = N executes at least one    *)
(* and at most N rounds, numbered 1, 2, ... in steps of one; every driver  *)
(* process runs in the driver worktree and every navigator process in the  *)
(* navigator worktree of its round, which no other round uses.              *)
C28_JointRoundsAndWorktrees ==
    /\ []((cfg.implMode = "joint" /\ pc = "review")
            => loop.executed >= 1 /\ loop.executed <= MaxRoundsOf(cfg))
    /\ [][/\ (pc = "implement" /\ pc' = "joint_round") => round' = 1
          /\ (pc = "joint_navigator" /\ pc' = "joint_round") => round' = round + 1
          /\ pc = "joint_round" => round' = round
          /\ (pc = "joint_navigator" /\ pc' = "joint_finish") => round' = round]_vars
    /\ [][\A p \in procs' \ procs :
            /\ (cfg.implMode = "joint" /\ p.phase = "implement")
                 => p.cwd = WorktreeDir("driver") /\ round \in 1..MaxRoundsOf(cfg)
            /\ p.phase = "collab"
                 => /\ p.cwd = NavigatorWorktree(round)
                    /\ p.cwd # WorktreeDir("driver")
                    /\ \A k \in 1..(MaxJointRounds + 1) :
                          k # round => p.cwd # NavigatorWorktree(k)]_vars

-----------------------------------------------------------------------------
(* Guarded runs with and without --apply: a joint implementation with     *)
(* automatic and manual navigator patches, review and converge, and a      *)
(* parallel implementation.                                                 *)
GuardConfigs ==
    LET guarded == [BaseConfig EXCEPT !.decisionMode = "prefer-claude",
                                      !.guardrails = DepProtection]
    IN {[guarded EXCEPT !.implMode = "joint", !.applyNavigatorPatch = ap,
                        !.reviewEnabled = TRUE, !.convergeEnabled = TRUE,
                        !.reviewer = "codex", !.applyPatch = a] :
            ap \in {Undef, "manual"}, a \in BOOLEAN}
       \cup {[guarded EXCEPT !.implMode = "parallel", !.applyPatch = a] : a \in BOOLEAN}

SpecGuard == InitWith(GuardConfigs, InitTrees) /\ [][NextApply]_vars

(* C29: guardrails are evaluated in the apply step and nowhere else: no    *)
(* step of the joint loop or of the converge loop, and no other step,      *)
(* evaluates them or writes the 'Guardrails blocked apply' log; and a run  *)
(* without --apply never evaluates them.                                    *)
C29_GuardrailsOnlyInApplyStep ==
    /\ [][pc # "apply"
            => /\ guardrailChecks' = guardrailChecks
               /\ art'["final/apply.log"] = art["final/apply.log"]]_vars
    /\ [](guardrailChecks > 0 => cfg.applyPatch /\ pc = "done")
    /\ [](~cfg.applyPatch
            => guardrailChecks = 0 /\ ~IsBlockedLog(art["final/apply.log"]))

C29_Witness ==
    /\ pc = "done"
    /\ guardrailChecks = 1
    /\ cfg.convergeEnabled
    /\ loop.executed >= 1
    /\ art["converge/meta.json"] # Absent
    /\ IsBlockedLog(art["final/apply.log"])

-----------------------------------------------------------------------------
(* the five rules of the guardrails, each by the name of its violation *)
RuleNames ==
    {"Too many files changed", "Too many lines added", "Too many lines removed",
     "Forbidden paths changed", "Dependency files changed (not allowed)"}
RuleViolated(name, g, files, stats) ==
    CASE name = "Too many files changed" ->
            Cardinality(files) > (IF g.maxFilesChanged = NoneV THEN 50 ELSE g.maxFilesChanged[1])
      [] name = "Too many lines added" ->
            stats.added > (IF g.maxLinesAdded = NoneV THEN 2000 ELSE g.maxLinesAdded[1])
      [] name = "Too many lines removed" ->
            stats.removed > (IF g.maxLinesRemoved = NoneV THEN 2000 ELSE g.maxLinesRemoved[1])
      [] name = "Forbidden paths changed" ->
            \E f \in files, i \in 1..Len(g.forbiddenPaths) :
                g.forbiddenPaths[i] # <<>> /\ matchesGlob(g.forbiddenPaths[i], f)
      [] name = "Dependency files changed (not allowed)" ->
            /\ g.forbidDependencyChanges
            /\ \E f \in files :
                  f \in (IF g.dependencyFiles = NoneV THEN DefaultDependencyFiles
                         ELSE g.dependencyFiles[1])

(* C30: the guardrail evaluation of the apply step reports every rule that *)
(* the final patch violates, once, and nothing else: more changed files    *)
(* than the ceiling, more added lines, more removed lines, a changed file  *)
(* that matches a forbidden path, a changed dependency file when the       *)
(* protection is on; the list is empty exactly when no rule is violated,   *)
(* and a non-empty list is what the apply log holds.                        *)
C30_EveryViolatedRuleIsReported ==
    [][(pc = "apply" /\ GuardrailsEvaluated(cfg, decision))
        => LET g == cfg.guardrails
               text == FinalPatchText(art)
               files == extractChangedFilesFromDiff(text, RootDir,
                            IF cfg.isGit THEN RootDir
                            ELSE WorktreeDir(CanonicalWorktree(cfg, decision)))
               stats == summarizeDiff(text)
               violations == evaluateGuardrails(g, files, stats)
               violated == {n \in RuleNames : RuleViolated(n, g, files, stats)}
           IN /\ \A n \in RuleNames :
                    (n \in violated) <=> (\E i \in 1..Len(violations) : violations[i] = n)
              /\ Len(violations) = Cardinality(violated)
              /\ (violations = <<>>) <=> (violated = {})
              /\ violations # <<>> => art'["final/apply.log"] = BlockedLog(violations)
              /\ violations = <<>> => ~IsBlockedLog(art'["final/apply.log"])]_vars

C30_Witness ==
    /\ pc = "done"
    /\ IsBlockedLog(art["final/apply.log"])
    /\ Len(art["final/apply.log"].violations) = 5
    /\ cfg.isGit

-----------------------------------------------------------------------------
(* Sessions over several invocations: each invocation gives a task and     *)
(* either names the session 0 or lets a new one be made; an invocation     *)
(* follows another that has ended or was interrupted.                       *)

Tasks == {"task A", "task B"}
SessionConfigs ==
    {[BaseConfig EXCEPT !.task = t, !.sessionId = s] : t \in Tasks, s \in {NoneV, Some(0)}}

(* orchestrate, from the session id to context.json *)
OpenSession ==
    /\ pc = "start"
    /\ LET sessionId == SessionIdOf(cfg, invocations)
           sessionTask == SessionTask(sessions[sessionId], cfg.task)
       IN /\ sessions' = OpenedSessions(sessions, sessionId, cfg.task)
          /\ context' = RunContext(sessionId, sessionTask)
    /\ pc' = "verify"
    /\ UNCHANGED <<exec, cfg, phases, art, decisionWrites, transcript, decision, debateDirs,
                   picks, round, roles, rootTree, wt, loop, calls, invocations,
                   guardrailChecks>>

(* the next invocation of the program: a new process, a new run directory *)
Invoke ==
    /\ pc # "start"
    /\ invocations < MaxInvocations
    /\ invocations' = invocations + 1
    /\ cfg' \in {EffectiveConfig(c) : c \in SessionConfigs}
    /\ pc' = "start"
    /\ context' = NoContext
    /\ phases' = <<>>
    /\ art' = [a \in ArtifactNames |-> Absent]
    /\ decisionWrites' = 0
    /\ transcript' = <<>>
    /\ decision' = NoDecision
    /\ debateDirs' = {}
    /\ picks' = NoPicks
    /\ round' = 0
    /\ roles' = NoRoles
    /\ wt' = [w \in WorktreeNames |-> NoTree]
    /\ loop' = NoLocals
    /\ calls' = [p \in PhaseNames |-> 0]
    /\ guardrailChecks' = 0
    /\ UNCHANGED <<exec, sessions, rootTree>>

InitSession ==
    /\ cfg \in {EffectiveConfig(c) : c \in SessionConfigs}
    /\ pc = "start"
    /\ invocations = 1
    /\ guardrailChecks = 0
    /\ sessions = [s \in SessionIds |-> Absent]
    /\ context = NoContext
    /\ phases = <<>>
    /\ art = [a \in ArtifactNames |-> Absent]
    /\ decisionWrites = 0
    /\ transcript = <<>>
    /\ decision = NoDecision
    /\ debateDirs = {}
    /\ picks = NoPicks
    /\ round = 0
    /\ roles = NoRoles
    /\ rootTree = [f \in Files |-> 1]
    /\ wt = [w \in WorktreeNames |-> NoTree]
    /\ loop = NoLocals
    /\ calls = [p \in PhaseNames |-> 0]
    /\ procs = {}
    /\ callLog = <<>>
    /\ lastResult = NoneV

NextSession == OpenSession \/ PreludeActions \/ Invoke

SpecSession == InitSession /\ [][NextSession]_vars

(* C22: the task of a session is the task given when the session was      *)
(* first used: a session record, once written, never changes, and every    *)
(* run's context carries the task of its session's record, whatever task   *)
(* the invocation gave.                                                     *)
C22_SessionTaskFixedAtFirstUse ==
    /\ [][\A s \in SessionIds : sessions[s] # Absent => sessions'[s] = sessions[s]]_vars
    /\ [][pc = "start"
            => LET s == SessionIdOf(cfg, invocations) IN
               /\ context'.sessionId = s
               /\ sessions[s] # Absent => context'.task = sessions[s].task
               /\ sessions[s] = Absent
                    => sessions'[s] = SessionFile(s, cfg.task) /\ context'.task = cfg.task]_vars
    /\ [](pc # "start"
            => /\ sessions[context.sessionId] # Absent
               /\ context.task = sessions[context.sessionId].task)

C22_Witness ==
    /\ pc = "plan"
    /\ invocations = 3
    /\ cfg.sessionId = Some(0)
    /\ cfg.task = "task B"
    /\ context.task = "task A"
    /\ sessions[0] = SessionFile(0, "task A")
    /\ sessions[2] = SessionFile(2, "task B")

-----------------------------------------------------------------------------
(* Directory trees (workspace.ts).  A directory tree gives every path of a *)
(* small universe what is there: nothing (0), a directory (Dir) or a file  *)
(* with a content 1..MaxContent.  The universe has a top-level file, a     *)
(* top-level entry src that is a file or a directory, an entry named build *)
(* inside src, and a top-level directory build with a file in it.           *)

Dir == -1
DEFAULT_EXCLUDES == {".git", ".orchestrator", "node_modules", "dist", "build"}

SrcPath == <<"src">>
SrcBuild == <<"src", "build">>
BuildPath == <<"build">>
BuildOut == <<"build", "out">>
EntryPaths == {<<"app.ts">>, SrcPath, SrcBuild, BuildPath, BuildOut}
(* the order in which a directory walk meets the entries: parents first *)
EntryOrder == << <<"app.ts">>, BuildPath, BuildOut, SrcPath, SrcBuild >>

DirTrees ==
    {t \in [EntryPaths -> {Dir} \cup (0..MaxContent)] :
        /\ t[<<"app.ts">>] # Dir
        /\ t[SrcBuild] # Dir /\ (t[SrcBuild] # 0 => t[SrcPath] = Dir)
        /\ t[BuildPath] \in {0, Dir}
        /\ t[BuildOut] # Dir /\ (t[BuildOut] # 0 => t[BuildPath] = Dir)}
EmptyDir == [p \in EntryPaths |-> 0]

(* relPath.split(path.sep)[0], tested against the excludes *)
TopExcluded(relPath, excludes) == relPath[1] \in excludes

(* listRelativeEntries: the paths under rootDir whose top-level name is    *)
(* not excluded                                                             *)
listRelativeEntries(tree, excludes) ==
    {p \in EntryPaths : tree[p] # 0 /\ ~TopExcluded(p, excludes)}

(* fs.cpSync(..., {recursive: true, force: true}) over the entries to copy, *)
(* in the order of the walk: a file replaces a file, a directory merges    *)
(* into a directory, and a directory over a file or a file over a          *)
(* directory throws, with the entries copied so far left in place           *)
RECURSIVE cpSync(_, _, _)
cpSync(source, dest, todo) ==
    IF todo = <<>> THEN [error |-> FALSE, tree |-> dest]
    ELSE LET p == Head(todo) IN
         IF dest[p] # 0 /\ ((source[p] = Dir) # (dest[p] = Dir))
         THEN [error |-> TRUE, tree |-> dest]
         ELSE cpSync(source, [dest EXCEPT ![p] = source[p]], Tail(todo))

(* the entries of the source that a copy with a top-level filter visits *)
ToCopy(source, excludes) ==
    SelectSeq(EntryOrder, LAMBDA p : source[p] # 0 /\ ~TopExcluded(p, excludes))

(* copyWorkspace on directory trees: every top-level entry that is not     *)
(* excluded is copied with its subtree                                      *)
copyWorkspaceTree(source, dest, excludes) == cpSync(source, dest, ToCopy(source, excludes))

(* syncWorkspace: remove what the destination has and the source lacks     *)
(* (excluded top-level names apart), then copy the source over it           *)
syncWorkspaceMut(source, dest, excludes) == cpSync(source, dest, ToCopy(source, excludes))
syncWorkspace(source, dest, excludes) ==
    LET sourcePaths == listRelativeEntries(source, excludes)
        toRemove == listRelativeEntries(dest, excludes) \ sourcePaths
        removed == [p \in EntryPaths |-> IF p \in toRemove THEN 0 ELSE dest[p]]
    IN cpSync(source, removed, ToCopy(source, excludes))

(* diff -ruN --exclude=<name>...: GNU diff skips every file and directory  *)
(* whose base name matches an excluded name, at any depth                   *)
DiffExcludeNames == {".git", ".orchestrator", "node_modules", "dist", "build"}
DiffSkips(relPath) == \E i \in 1..Len(relPath) : relPath[i] \in DiffExcludeNames

(* diffDirs on directory trees: the files the output has a section for     *)
diffDirsTree(left, right) ==
    {p \in EntryPaths :
        /\ ~DiffSkips(p)
        /\ left[p] # right[p]
        /\ left[p] # Dir /\ right[p] # Dir}

(* A plain-directory run at the grain of directory entries: the worktree   *)
(* is copied from the working tree, the agents leave it in some state, the *)
(* final patch is the diff of the two, and --apply syncs the worktree into *)
(* the working tree.                                                        *)
CopyToWorktree ==
    /\ pc = "ws_copy"
    /\ LET outcome == copyWorkspaceTree(rootTree, EmptyDir, DEFAULT_EXCLUDES)
       IN /\ wt' = [wt EXCEPT !["driver"] = outcome.tree]
          /\ pc' = IF outcome.error THEN "crashed" ELSE "ws_edit"
    /\ UNCHANGED <<exec, store, guardrailChecks, cfg, phases, art, decisionWrites, transcript,
                   decision, debateDirs, picks, round, roles, rootTree, loop, calls>>

AgentsEditWorktree ==
    /\ pc = "ws_edit"
    /\ \E edited \in DirTrees : wt' = [wt EXCEPT !["driver"] = edited]
    /\ pc' = "ws_diff"
    /\ UNCHANGED <<exec, store, guardrailChecks, cfg, phases, art, decisionWrites, transcript,
                   decision, debateDirs, picks, round, roles, rootTree, loop, calls>>

DiffWorktree ==
    /\ pc = "ws_diff"
    /\ art' = [art EXCEPT !["final/final.patch"] =
                             [files |-> diffDirsTree(rootTree, wt["driver"])]]
    /\ pc' = "ws_sync"
    /\ UNCHANGED <<exec, store, guardrailChecks, cfg, phases, decisionWrites, transcript,
                   decision, debateDirs, picks, round, roles, rootTree, wt, loop, calls>>

SyncToWorkspace ==
    /\ pc = "ws_sync"
    /\ LET outcome == syncWorkspace(wt["driver"], rootTree, DEFAULT_EXCLUDES)
       IN /\ rootTree' = outcome.tree
          /\ pc' = IF outcome.error THEN "crashed" ELSE "ws_synced"
    /\ UNCHANGED <<exec, store, guardrailChecks, cfg, phases, art, decisionWrites, transcript,
                   decision, debateDirs, picks, round, roles, wt, loop, calls>>

InitSync ==
    /\ cfg = EffectiveConfig([BaseConfig EXCEPT !.applyPatch = TRUE])
    /\ pc = "ws_copy"
    /\ rootTree \in DirTrees
    /\ wt = [n \in WorktreeNames |-> EmptyDir]
    /\ phases = <<>>
    /\ art = [a \in ArtifactNames |-> Absent]
    /\ decisionWrites = 0
    /\ transcript = <<>>
    /\ decision = NoDecision
    /\ debateDirs = {}
    /\ picks = NoPicks
    /\ round = 0
    /\ roles = NoRoles
    /\ loop = NoLocals
    /\ calls = [p \in PhaseNames |-> 0]
    /\ procs = {}
    /\ callLog = <<>>
    /\ lastResult = NoneV
    /\ invocations = 1
    /\ guardrailChecks = 0
    /\ sessions = OpenedSessions([s \in SessionIds |-> Absent], SessionIdOf(cfg, 1), cfg.task)
    /\ context = RunContext(SessionIdOf(cfg, 1), cfg.task)

NextSync == CopyToWorktree \/ AgentsEditWorktree \/ DiffWorktree \/ SyncToWorkspace

SpecSync == InitSync /\ [][NextSync]_vars

(* C31: when syncWorkspace(source, dest) completes, the destination holds  *)
(* under every name that is not excluded exactly what the source holds     *)
(* (what the source lacks is gone, the rest is copied), what it held under *)
(* excluded top-level names is as it was, and the source is as it was.     *)
C31_SyncReconciles ==
    [][(pc = "ws_sync" /\ pc' = "ws_synced")
        => /\ \A p \in EntryPaths :
                 rootTree'[p] = IF p[1] \in DEFAULT_EXCLUDES THEN rootTree[p]
                                ELSE wt["driver"][p]
           /\ wt' = wt]_vars

C31_Witness ==
    /\ pc = "ws_synced"
    /\ rootTree[<<"app.ts">>] = 0
    /\ rootTree[SrcPath] = Dir
    /\ rootTree[SrcBuild] = 2
    /\ rootTree[BuildOut] = 1
    /\ wt["driver"][BuildOut] = 2
    /\ rootTree[SrcBuild] = wt["driver"][SrcBuild]

(* C32: copy, sync and diff leave out the same paths: every file that the  *)
(* copy into the worktree or the sync into the working tree transfers is   *)
(* one the diff compares, and every file the diff skips is left out by     *)
(* copy and sync (so a file that the sync changes is in the diff).          *)
C32_SameExclusions ==
    /\ [][(pc = "ws_copy" /\ pc' = "ws_edit")
            => \A p \in EntryPaths :
                  /\ wt'["driver"][p] # 0 => ~DiffSkips(p)
                  /\ DiffSkips(p) => wt'["driver"][p] = 0]_vars
    /\ [][(pc = "ws_sync" /\ pc' = "ws_synced")
            => \A p \in EntryPaths :
                  /\ DiffSkips(p) => rootTree'[p] = rootTree[p]
                  /\ rootTree'[p] # rootTree[p] /\ rootTree'[p] # Dir /\ rootTree[p] # Dir
                       => p \in art["final/final.patch"].files]_vars


(***************************************************************************)
(* C33: the driver that the joint phase records in meta.json (and that     *)
(* the convergence phase takes as its first fixer) is the agent that       *)
(* drove the last executed joint round: the step that ends the last round  *)
(* leaves the driver role where it was, and the record written after the   *)
(* loop names that driver.                                                 *)
(***************************************************************************)
C33_RecordedDriverIsLastImplementer ==
    [][/\ (pc = "joint_navigator" /\ (pc' = "joint_finish" \/ round' > MaxRoundsOf(cfg)))
             => roles'.driver = roles.driver
       /\ (pc' = "review" /\ art'["implement/joint/meta.json"] # art["implement/joint/meta.json"])
             => art'["implement/joint/meta.json"].driver = roles.driver]_vars


(***************************************************************************)
(* C34: the joint loop stops with "navigator patch failed to apply" only   *)
(* in a round in which applying the navigator patch was attempted (mode    *)
(* "auto" and a non-empty patch); in mode "manual" no round ends with that *)
(* outcome.                                                                *)
(***************************************************************************)
C34_ApplyFailureOnlyAfterAnAttempt ==
    [][(/\ pc = "joint_navigator"
        /\ transcript' = Append(transcript,
                                Note("implement", <<"Stopping early: navigator patch failed to apply.">>)))
          => /\ cfg.applyNavigatorPatch # "manual"
             /\ ~IsEmptyPatch(loop'.navigatorPatch)]_vars


(***************************************************************************)
(* C35: in a plain-directory run with --apply whose guardrails pass, the   *)
(* tree synced into the working tree is the tree that final/final.patch,   *)
(* the patch the guardrails evaluated, describes (the working tree as it   *)
(* was when there is no final patch).                                      *)
(***************************************************************************)
C35_SyncedTreeIsTheEvaluatedPatch ==
    [][(/\ pc = "apply"
        /\ ~cfg.isGit
        /\ cfg.guardrails.enabled
        /\ art'["final/apply.log"] = ApplyLog("Synced worktree into workspace"))
          => rootTree' = IF art["final/final.patch"] = Absent THEN rootTree
                         ELSE art["final/final.patch"].to]_vars


(***************************************************************************)
(* C36: a call resolves with exit code 0 only for a child that itself      *)
(* exited with code 0 and whose timer did not fire: a child ended by a     *)
(* signal (no exit code) is never reported as exit code 0, and a result    *)
(* with timedOut set never carries exit code 0.                            *)
(***************************************************************************)
C36_ZeroExitOnlyFromTheChild ==
    [][(/\ pc' = pc
        /\ lastResult' # NoneV
        /\ lastResult'[1].exitCode = 0
        /\ \E p \in procs : procs' = procs \ {p})
          => \A p \in procs \ procs' : p.code = Some(0) /\ ~p.timedOut]_vars


(***************************************************************************)
(* C37: when the decision phase has returned, whatever path it took, the   *)
(* transcript holds exactly one 'decision' event, that event carries the   *)
(* decision returned, and the decision record holds the same decision.     *)
(***************************************************************************)
C37_OneDecisionEventOnEveryPath ==
    pc = "execution_plan"
        => /\ Cardinality({i \in 1..Len(transcript) : transcript[i].kind = "decision"}) = 1
           /\ \A i \in 1..Len(transcript) :
                 transcript[i].kind = "decision" => transcript[i].content = decision
           /\ art["decide/decision.json"] = decision


(* a review output that parses to an object with a non-empty blockers array *)
ListsBlockers(text) == text # Absent /\ text.parses /\ text.blockers # <<>>

(***************************************************************************)
(* C38: every blocker entry of a parseable review counts: when the review  *)
(* of a configured reviewer lists blockers, the converge loop is entered,  *)
(* and a converge round whose critic review lists blockers does not stop   *)
(* as converged.                                                           *)
(***************************************************************************)
C38_ListedBlockersBlock ==
    [][/\ (/\ pc = "converge"
           /\ ConvergeRuns(cfg, decision, wt)
           /\ \E i \in 1..Len(Reviewers(cfg)) : ListsBlockers(art[ReviewFile(Reviewers(cfg)[i])]))
             => pc' = "converge_round"
       /\ (pc = "converge_critic" /\ ListsBlockers(art'["converge/critic.json"]))
             => pc' # "converge_finish"]_vars


(* the user declined the execution at the approval gate *)
Declined ==
    \E i \in 1..Len(transcript) :
       transcript[i] = Note("interactive", <<"Execution skipped by user.">>)

(***************************************************************************)
(* C39: once the user has declined the execution, no implementation,       *)
(* review, convergence or apply step runs, no worktree exists, the working *)
(* tree never changes (also with --apply), and the only step left is the   *)
(* final phase, which ends the run with the winner record and the summary. *)
(***************************************************************************)
C39_DeclinedRunOnlyFinishes ==
    /\ [](Declined =>
            /\ Started \cap {"implement", "review", "converge", "apply"} = {}
            /\ wt = [w \in WorktreeNames |-> NoTree]
            /\ pc \in {"final_skipped", "done"}
            /\ pc = "final_skipped" => ENABLED RunFinalPhase
            /\ pc = "done" => /\ "final" \in Started
                              /\ art["final/winner.json"] = decision
                              /\ art["final/summary.md"] = Written)
    /\ [][Declined => rootTree' = rootTree /\ pc' = "done"]_vars

C39_Witness == Declined /\ pc = "done" /\ cfg.applyPatch /\ art["final/summary.md"] = Written


(* a parallel implementation whose decision names no winner *)
NoWinner == cfg.implMode # "joint" /\ decision.winner = "neither"

(***************************************************************************)
(* C40: in a parallel run whose decision is 'neither', no review and no    *)
(* converge call is made and nothing is written under review/ or           *)
(* converge/, no final patch is written, the apply step writes no log and  *)
(* runs no tests, the working tree never changes (also with --apply), and  *)
(* the run ends with the winner record and the summary.                    *)
(***************************************************************************)
C40_NoWinnerSkipsReviewConvergeApply ==
    /\ [](NoWinner =>
            /\ calls["review"] = 0 /\ calls["converge"] = 0
            /\ \A a \in {"review/codex.md", "review/claude.md", "converge/critic.json",
                         "converge/review.json", "converge/final.patch", "converge/meta.json",
                         "final/final.patch", "final/apply.log", "final/tests.log"} :
                  art[a] = Absent
            /\ pc = "done" => /\ "final" \in Started
                              /\ art["final/winner.json"] = decision
                              /\ art["final/summary.md"] = Written)
    /\ [][NoWinner => rootTree' = rootTree]_vars

C40_Witness ==
    /\ NoWinner
    /\ pc = "done"
    /\ cfg.applyPatch /\ cfg.reviewEnabled /\ cfg.convergeEnabled
    /\ "apply" \in Started
    /\ wt["codex"] # rootTree
    /\ art["implement/codex/diff.patch"] # Absent
    /\ art["final/summary.md"] = Written

=============================================================================
